---- MODULE Spec2Model ----
(***************************************************************************)
(* Model of the payments service core: the unified PaymentService with its *)
(* gateways and event publishers, the dead-letter queue manager, and the   *)
(* Stripe webhook ingestion path.                                          *)
(*                                                                         *)
(* Conventions.  Go strings that are identifiers are modelled as tuples of *)
(* tokens (the empty string is <<>>); byte strings that the code scans     *)
(* character by character (the Stripe-Signature header, the webhook body)  *)
(* are sequences of one-character strings.  A nil error is "nil".          *)
(***************************************************************************)
EXTENDS Integers, Sequences, FiniteSets, TLC

VARIABLES gateway, mock, eventPublisher, producer, kafka, dlq, ret, now,
          webhookSecret, wh, handled, replay, tasks, factory, schemas,
          heap

vars == <<gateway, mock, eventPublisher, producer, kafka, dlq, ret, now,
          webhookSecret, wh, handled, replay, tasks, factory, schemas,
          heap>>

\* The provider registry of the gateway factory, the schema registry of the
\* CloudEvents version manager, and the envelopes and data maps that callers
\* of the version manager hold by reference.
regVars == <<factory, schemas, heap>>

\* The event replay manager and the concurrent tasks that call the managers.
concVars == <<replay, tasks>>

payVars == <<gateway, mock, eventPublisher, producer, kafka, dlq, ret>>
whVars == <<webhookSecret, wh, handled>>

----------------------------------------------------------------------------
(* Bounds *)

MaxOps == 2
MaxDlq == 1
MaxNow == 1
MaxDeliveries == 2

----------------------------------------------------------------------------
(* Gateways *)

NoRecord == [kind |-> "none"]

Providers == {"mock", "square"}

\* Currency codes are strings whose length the validators inspect.
usd == <<"u", "s", "d">>
eur == <<"e", "u", "r">>
gbp == <<"g", "b", "p">>
cad == <<"c", "a", "d">>
jpy == <<"j", "p", "y">>
aud == <<"a", "u", "d">>

MockCapabilities ==
  [MaxPaymentAmount |-> 1000000,
   SupportedCurrencies |-> <<usd, eur, gbp>>]

SquareCapabilities ==
  [MaxPaymentAmount |-> 99999999,
   SupportedCurrencies |-> <<usd, cad, eur, gbp, jpy, aud>>]

GetCapabilities(g) ==
  IF g = "mock" THEN MockCapabilities ELSE SquareCapabilities

NewMockGateway ==
  [counter |-> 0, customers |-> {}, charges |-> {}, refunds |-> {},
   disputes |-> {}]

\* validator.Struct on the request types (struct tags of the request types)
ValidCustomerRequest(req) == req.Email # <<>> /\ req.Name # <<>>
ValidChargeRequest(req) ==
  req.Amount >= 1 /\ Len(req.Currency) = 3 /\ req.CustomerID # <<>>
ValidRefundRequest(req) == req.ChargeID # <<>>
ValidDisputeRequest(req) ==
  req.ChargeID # <<>> /\ req.Amount >= 1 /\ req.Reason # <<>>

\* Each gateway call yields [rec, err, mock]: the record, the error and the
\* state of the mock gateway afterwards.
MockCreateCustomer(m, req) ==
  LET c == m.counter + 1
      rec == [kind |-> "customer", ID |-> <<"cus_mock_", c>>,
              Email |-> req.Email, Name |-> req.Name]
  IN [rec |-> rec, err |-> "nil",
      mock |-> [m EXCEPT !.counter = c, !.customers = @ \cup {rec}]]

MockCreateCharge(m, req) ==
  LET c == m.counter + 1
      rec == [kind |-> "charge", ID |-> <<"ch_mock_", c>>,
              Amount |-> req.Amount, Currency |-> req.Currency,
              Status |-> "succeeded", CustomerID |-> req.CustomerID]
  IN [rec |-> rec, err |-> "nil",
      mock |-> [m EXCEPT !.counter = c, !.charges = @ \cup {rec}]]

MockCreateRefund(m, req) ==
  LET c == m.counter + 1
      rec == [kind |-> "refund", ID |-> <<"re_mock_", c>>,
              ChargeID |-> req.ChargeID, Amount |-> req.Amount,
              Currency |-> usd, Status |-> "succeeded",
              Reason |-> req.Reason]
  IN [rec |-> rec, err |-> "nil",
      mock |-> [m EXCEPT !.counter = c, !.refunds = @ \cup {rec}]]

MockCreateDispute(m, req) ==
  LET c == m.counter + 1
      rec == [kind |-> "dispute", ID |-> <<"dp_mock_", c>>,
              ChargeID |-> req.ChargeID, Amount |-> req.Amount,
              Currency |-> usd, Status |-> "open",
              Reason |-> req.Reason]
  IN [rec |-> rec, err |-> "nil",
      mock |-> [m EXCEPT !.counter = c, !.disputes = @ \cup {rec}]]

SquareCreateCustomer(m, req, t) ==
  IF ~ValidCustomerRequest(req)
  THEN [rec |-> NoRecord, err |-> "validation failed", mock |-> m]
  ELSE [rec |-> [kind |-> "customer", ID |-> <<"square_cust_", t>>,
                 Email |-> req.Email, Name |-> req.Name],
        err |-> "nil", mock |-> m]

SquareCreateCharge(m, req) ==
  IF ~ValidChargeRequest(req)
  THEN [rec |-> NoRecord, err |-> "validation failed", mock |-> m]
  ELSE [rec |-> NoRecord, err |-> "not implemented", mock |-> m]

SquareCreateRefund(m, req) ==
  IF ~ValidRefundRequest(req)
  THEN [rec |-> NoRecord, err |-> "validation failed", mock |-> m]
  ELSE [rec |-> NoRecord, err |-> "not implemented", mock |-> m]

SquareCreateDispute(m, req) ==
  IF ~ValidDisputeRequest(req)
  THEN [rec |-> NoRecord, err |-> "validation failed", mock |-> m]
  ELSE [rec |-> NoRecord, err |-> "not implemented", mock |-> m]

GatewayCreateCustomer(g, m, req, t) ==
  IF g = "mock" THEN MockCreateCustomer(m, req)
  ELSE SquareCreateCustomer(m, req, t)

GatewayCreateCharge(g, m, req) ==
  IF g = "mock" THEN MockCreateCharge(m, req) ELSE SquareCreateCharge(m, req)

GatewayCreateRefund(g, m, req) ==
  IF g = "mock" THEN MockCreateRefund(m, req) ELSE SquareCreateRefund(m, req)

GatewayCreateDispute(g, m, req) ==
  IF g = "mock" THEN MockCreateDispute(m, req)
  ELSE SquareCreateDispute(m, req)

----------------------------------------------------------------------------
(* Publishers *)

NewMockProducer == [events |-> <<>>, errors |-> {}]
NewKafka == [log |-> <<>>, uuids |-> 0]

\* The publisher installed by SetEventPublisher during construction: none,
\* a MockProducer or a KafkaProducer.
Publishers == {"nil", "mock", "kafka"}

EventTypes ==
  {"customer.created", "charge.created", "refund.created", "dispute.created"}

\* MockProducer.Publish: [err, producer]
MockPublish(p, event) ==
  IF event.Type \in p.errors
  THEN [err |-> "forced error", producer |-> p, event |-> event]
  ELSE [err |-> "nil", producer |-> [p EXCEPT !.events = Append(@, event)],
        event |-> event]

\* KafkaProducer.Publish: fills the absent fields of the event in place, then
\* sends; up tells whether the broker accepts the message.
KafkaFill(k, event, t) ==
  [event EXCEPT !.ID = IF @ = <<>> THEN <<"uuid", k.uuids + 1>> ELSE @,
                !.Time = IF @ = 0 THEN t ELSE @,
                !.SpecVersion = IF @ = "" THEN "1.0" ELSE @]

KafkaPublish(k, event, t, up) ==
  LET filled == KafkaFill(k, event, t)
      k1 == IF event.ID = <<>> THEN [k EXCEPT !.uuids = @ + 1] ELSE k
  IN IF up
     THEN [err |-> "nil", kafka |-> [k1 EXCEPT !.log = Append(@, filled)],
           event |-> filled]
     ELSE [err |-> "failed to publish message", kafka |-> k1,
           event |-> filled]

\* PaymentService.publishEvent: [handed, err, producer, kafka], handed being
\* the envelopes passed to Publish.
NewEvent_sourceWithoutResource(eventType, source, data) ==
  [ID |-> <<>>, Type |-> eventType, Source |-> "/payments", Data |-> data,
   Time |-> 0, SpecVersion |-> ""]

NewEvent(eventType, source, data) ==
  [ID |-> <<>>, Type |-> eventType, Source |-> source, Data |-> data,
   Time |-> 0, SpecVersion |-> ""]

publishEvent(pub, p, k, eventType, source, data, t, up) ==
  IF pub = "nil"
  THEN [handed |-> <<>>, err |-> "nil", producer |-> p, kafka |-> k]
  ELSE LET event == NewEvent(eventType, source, data)
       IN IF pub = "mock"
          THEN LET r == MockPublish(p, event)
               IN [handed |-> <<event>>, err |-> r.err,
                   producer |-> r.producer, kafka |-> k]
          ELSE LET r == KafkaPublish(k, event, t, up)
               IN [handed |-> <<event>>, err |-> r.err, producer |-> p,
                   kafka |-> r.kafka]

NoPublish(p, k) == [handed |-> <<>>, err |-> "nil", producer |-> p, kafka |-> k]

CustomerData(rec) ==
  [customer_id |-> rec.ID, email |-> rec.Email, name |-> rec.Name]
ChargeData(rec) ==
  [charge_id |-> rec.ID, amount |-> rec.Amount, currency |-> rec.Currency,
   status |-> rec.Status, customer_id |-> rec.CustomerID]
RefundData(rec) ==
  [refund_id |-> rec.ID, charge_id |-> rec.ChargeID, amount |-> rec.Amount,
   currency |-> rec.Currency, status |-> rec.Status, reason |-> rec.Reason]
DisputeData(rec) ==
  [dispute_id |-> rec.ID, charge_id |-> rec.ChargeID, amount |-> rec.Amount,
   currency |-> rec.Currency, status |-> rec.Status, reason |-> rec.Reason]

\* PaymentService.ValidatePaymentRequest
ValidatePaymentRequest(g, req) ==
  LET capabilities == GetCapabilities(g)
      currencySupported ==
        \E i \in 1..Len(capabilities.SupportedCurrencies) :
          capabilities.SupportedCurrencies[i] = req.Currency
  IN IF ~currencySupported THEN "currency not supported"
     ELSE IF req.Amount > capabilities.MaxPaymentAmount
          THEN "amount exceeds maximum"
          ELSE "nil"

----------------------------------------------------------------------------
(* Dead-letter queue manager *)

NilEvent == [nil |-> TRUE]

NewDeadLetterQueueManager == [events |-> <<>>, totalRetries |-> 0]

\* [err, dlq]
SendToDeadLetterQueue(d, event, failureReason, t) ==
  IF event = NilEvent THEN [err |-> "event cannot be nil", dlq |-> d]
  ELSE IF failureReason = "" THEN [err |-> "failure reason is required", dlq |-> d]
  ELSE [err |-> "nil",
        dlq |-> [d EXCEPT !.events =
                   Append(@, [Event |-> event, FailureReason |-> failureReason,
                              FailureTime |-> t, RetryCount |-> 0])]]

GetDeadLetterEvents(d) == d.events

RemoveAt(s, i) == SubSeq(s, 1, i - 1) \o SubSeq(s, i + 1, Len(s))

RetryEvent_retriesUncounted(d, eventID) ==
  LET hits == {i \in 1..Len(d.events) : d.events[i].Event.ID = eventID}
  IN IF hits = {}
     THEN [event |-> NilEvent, err |-> "not found", dlq |-> d]
     ELSE LET i == CHOOSE j \in hits : \A h \in hits : j <= h
          IN [event |-> d.events[i].Event, err |-> "nil",
              dlq |-> [events |-> RemoveAt(d.events, i),
                       totalRetries |-> d.totalRetries]]

RetryEvent_removesLatest(d, eventID) ==
  LET hits == {i \in 1..Len(d.events) : d.events[i].Event.ID = eventID}
  IN IF hits = {}
     THEN [event |-> NilEvent, err |-> "not found", dlq |-> d]
     ELSE LET i == CHOOSE j \in hits : \A h \in hits : j >= h
          IN [event |-> d.events[i].Event, err |-> "nil",
              dlq |-> [events |-> RemoveAt(d.events, i),
                       totalRetries |-> d.totalRetries + 1]]

\* [event, err, dlq].  The RetryCount the code raises is that of the entry it
\* then removes, which the manager no longer holds.
RetryEvent(d, eventID) ==
  LET hits == {i \in 1..Len(d.events) : d.events[i].Event.ID = eventID}
  IN IF hits = {}
     THEN [event |-> NilEvent, err |-> "not found", dlq |-> d]
     ELSE LET i == CHOOSE j \in hits : \A h \in hits : j <= h
          IN [event |-> d.events[i].Event, err |-> "nil",
              dlq |-> [events |-> RemoveAt(d.events, i),
                       totalRetries |-> d.totalRetries + 1]]

GetStatistics(d) ==
  [TotalEvents |-> Len(d.events), RetryCount |-> d.totalRetries]

----------------------------------------------------------------------------
(* Registries *)

\* A DefaultProviderFactory: the names that have a constructor.  NilFactory
\* is the global factory before InitializeFactory.
NewDefaultProviderFactory == [providers |-> {}]
NilFactory == [nil |-> TRUE]

\* CloudEventsValidator.Validate: the error text, "nil" for none.
Validate_timeBeforeSpecVersion(event) ==
  IF event.ID = <<>> THEN "event id is required"
  ELSE IF event.Type = "" THEN "event type is required"
  ELSE IF event.Source = "" THEN "event source is required"
  ELSE IF event.Time = 0 THEN "event time should be set"
  ELSE IF event.SpecVersion = "" THEN "event specversion is required"
  ELSE IF event.SpecVersion # "1.0" /\ event.SpecVersion # "1.1"
       THEN "event specversion must be '1.0' or '1.1', got '"
              \o event.SpecVersion \o "'"
  ELSE "nil"

Validate(event) ==
  IF event.ID = <<>> THEN "event id is required"
  ELSE IF event.Type = "" THEN "event type is required"
  ELSE IF event.Source = "" THEN "event source is required"
  ELSE IF event.SpecVersion = "" THEN "event specversion is required"
  ELSE IF event.SpecVersion # "1.0" /\ event.SpecVersion # "1.1"
       THEN "event specversion must be '1.0' or '1.1', got '"
              \o event.SpecVersion \o "'"
  ELSE IF event.Time = 0 THEN "event time should be set"
  ELSE "nil"

NilSchema == [nil |-> TRUE]

\* The key of CloudEventsVersionManager.schemas: "type:version".
SchemaKey(type, version) == type \o ":" \o version

\* CloudEventsVersionManager.RegisterSchema: [err, schemas]
RegisterSchema(vm, schema) ==
  IF schema = NilSchema
  THEN [err |-> "schema cannot be nil", schemas |-> vm]
  ELSE IF schema.Version = ""
  THEN [err |-> "schema version is required", schemas |-> vm]
  ELSE IF schema.Type = ""
  THEN [err |-> "schema type is required", schemas |-> vm]
  ELSE [err |-> "nil",
        schemas |-> (SchemaKey(schema.Type, schema.Version) :> schema) @@ vm]

customerV1 ==
  [Version |-> "1.0", Type |-> "customer.created",
   RequiredFields |-> <<"id", "type", "source", "specversion", "time">>]

customerV11 ==
  [Version |-> "1.1", Type |-> "customer.created",
   RequiredFields |-> <<"id", "type", "source", "specversion", "time",
                        "customer_id", "email">>]

registerDefaultSchemas(vm) ==
  RegisterSchema(RegisterSchema(vm, customerV1).schemas, customerV11).schemas

\* CloudEventsVersionManager.schemas after construction.
NewCloudEventsVersionManager == registerDefaultSchemas(<<>>)

StructuralFields == {"id", "type", "source", "specversion", "time"}

\* The required fields of a schema that the data of an event lacks, in the
\* schema's order.
missingFields(schema, event) ==
  SelectSeq(schema.RequiredFields,
            LAMBDA field : /\ field \notin StructuralFields
                           /\ field \notin DOMAIN event.Data)

\* CloudEventsVersionManager.ValidateAgainstVersion: the error text.
ValidateAgainstVersion_checksStructural(vm, event, version) ==
  LET key == SchemaKey(event.Type, version)
  IN IF key \notin DOMAIN vm
     THEN "schema version " \o version \o " for type " \o event.Type
            \o " not found"
     ELSE IF Validate(event) # "nil"
     THEN "basic validation failed: " \o Validate(event)
     ELSE LET missing ==
                SelectSeq(vm[key].RequiredFields,
                          LAMBDA field : field \notin DOMAIN event.Data)
          IN IF missing # <<>>
             THEN "required field '" \o Head(missing)
                    \o "' not found in event data"
             ELSE "nil"

ValidateAgainstVersion_requiresOwnVersion(vm, event, version) ==
  LET key == SchemaKey(event.Type, version)
  IN IF key \notin DOMAIN vm
     THEN "schema version " \o version \o " for type " \o event.Type
            \o " not found"
     ELSE IF Validate(event) # "nil"
     THEN "basic validation failed: " \o Validate(event)
     ELSE IF event.SpecVersion # version
     THEN "event specversion does not match schema version " \o version
     ELSE IF missingFields(vm[key], event) # <<>>
     THEN "required field '" \o Head(missingFields(vm[key], event))
            \o "' not found in event data"
     ELSE "nil"

ValidateAgainstVersion(vm, event, version) ==
  LET key == SchemaKey(event.Type, version)
  IN IF key \notin DOMAIN vm
     THEN "schema version " \o version \o " for type " \o event.Type
            \o " not found"
     ELSE IF Validate(event) # "nil"
     THEN "basic validation failed: " \o Validate(event)
     ELSE IF missingFields(vm[key], event) # <<>>
     THEN "required field '" \o Head(missingFields(vm[key], event))
            \o "' not found in event data"
     ELSE "nil"

\* CloudEventsVersionManager.MigrateToVersion: [event, err]
MigrateToVersion_returnsCopyOnFailure(vm, event, targetVersion) ==
  LET key == SchemaKey(event.Type, targetVersion)
  IN IF key \notin DOMAIN vm
     THEN [event |-> NilEvent,
           err |-> "target schema version " \o targetVersion \o " for type "
                     \o event.Type \o " not found"]
     ELSE LET migratedEvent == [event EXCEPT !.SpecVersion = targetVersion]
              err == ValidateAgainstVersion(vm, migratedEvent, targetVersion)
          IN IF err # "nil"
             THEN [event |-> migratedEvent,
                   err |-> "migrated event validation failed against schema "
                             \o vm[key].Version \o ": " \o err]
             ELSE [event |-> migratedEvent, err |-> "nil"]

MigrateToVersion_withoutData(vm, event, targetVersion) ==
  LET key == SchemaKey(event.Type, targetVersion)
  IN IF key \notin DOMAIN vm
     THEN [event |-> NilEvent,
           err |-> "target schema version " \o targetVersion \o " for type "
                     \o event.Type \o " not found"]
     ELSE LET migratedEvent == [event EXCEPT !.SpecVersion = targetVersion,
                                             !.Data = <<>>]
              err == ValidateAgainstVersion(vm, migratedEvent, targetVersion)
          IN IF err # "nil"
             THEN [event |-> NilEvent,
                   err |-> "migrated event validation failed against schema "
                             \o vm[key].Version \o ": " \o err]
             ELSE [event |-> migratedEvent, err |-> "nil"]

MigrateToVersion(vm, event, targetVersion) ==
  LET key == SchemaKey(event.Type, targetVersion)
  IN IF key \notin DOMAIN vm
     THEN [event |-> NilEvent,
           err |-> "target schema version " \o targetVersion \o " for type "
                     \o event.Type \o " not found"]
     ELSE LET migratedEvent == [event EXCEPT !.SpecVersion = targetVersion]
              err == ValidateAgainstVersion(vm, migratedEvent, targetVersion)
          IN IF err # "nil"
             THEN [event |-> NilEvent,
                   err |-> "migrated event validation failed against schema "
                             \o vm[key].Version \o ": " \o err]
             ELSE [event |-> migratedEvent, err |-> "nil"]

\* Envelopes and their data maps as objects: an envelope's Data is the
\* position of its map in maps.  Position 0 is nil.
NoHeap == [events |-> <<>>, maps |-> <<>>]

\* The envelope at ref with its data in place of the reference to it.
Deref(h, ref) == [h.events[ref] EXCEPT !.Data = h.maps[@]]

\* The copy MigrateToVersion builds: [heap, ref]
copyEvent_sharesData(h, ref, targetVersion) ==
  [heap |-> [h EXCEPT !.events =
               Append(@, [h.events[ref] EXCEPT !.SpecVersion = targetVersion])],
   ref |-> Len(h.events) + 1]

copyEvent(h, ref, targetVersion) ==
  LET data == h.maps[h.events[ref].Data]
  IN [heap |-> [events |-> Append(h.events,
                                  [h.events[ref] EXCEPT
                                     !.SpecVersion = targetVersion,
                                     !.Data = Len(h.maps) + 1]),
                maps |-> Append(h.maps, [k \in DOMAIN data |-> data[k]])],
      ref |-> Len(h.events) + 1]

\* MigrateToVersion on envelope objects: [heap, event, err].  A copy that
\* fails validation is referenced by nobody and is left out of the heap.
MigrateObject(h, vm, ref, targetVersion) ==
  LET key == SchemaKey(h.events[ref].Type, targetVersion)
      c == copyEvent(h, ref, targetVersion)
      err == ValidateAgainstVersion(vm, Deref(c.heap, c.ref), targetVersion)
  IN IF key \notin DOMAIN vm
     THEN [heap |-> h, event |-> 0,
           err |-> "target schema version " \o targetVersion \o " for type "
                     \o h.events[ref].Type \o " not found"]
     ELSE IF err # "nil"
     THEN [heap |-> h, event |-> 0,
           err |-> "migrated event validation failed against schema "
                     \o vm[key].Version \o ": " \o err]
     ELSE [heap |-> c.heap, event |-> c.ref, err |-> "nil"]

Registries ==
  /\ factory = NewDefaultProviderFactory
  /\ schemas = NewCloudEventsVersionManager
  /\ heap = NoHeap

----------------------------------------------------------------------------
(* Event replay manager *)

NewEventReplayManager == [events |-> <<>>, replayCount |-> 0]

\* [err, replay]
StoreEvent(r, event) ==
  IF event = NilEvent THEN [err |-> "event cannot be nil", replay |-> r]
  ELSE [err |-> "nil", replay |-> [r EXCEPT !.events = Append(@, event)]]

GetStoredEvents(r) == r.events

ReplayEvents_closedRange(r, startTime, endTime) ==
  LET InRange(e) == e.Time >= startTime /\ e.Time <= endTime
  IN [events |-> SelectSeq(r.events, InRange),
      replay |-> [r EXCEPT !.replayCount = @ + 1]]

\* ReplayEvents: [events, replay]; the range is open at both ends.
ReplayEvents(r, startTime, endTime) ==
  LET InRange(e) == e.Time > startTime /\ e.Time < endTime
  IN [events |-> SelectSeq(r.events, InRange),
      replay |-> [r EXCEPT !.replayCount = @ + 1]]

ReplayEventsByType_countsMatchesOnly(r, eventType) ==
  LET OfType(e) == e.Type = eventType
  IN [events |-> SelectSeq(r.events, OfType),
      replay |-> IF SelectSeq(r.events, OfType) = <<>> THEN r
                 ELSE [r EXCEPT !.replayCount = @ + 1]]

\* ReplayEventsByType: [events, replay]
ReplayEventsByType(r, eventType) ==
  LET OfType(e) == e.Type = eventType
  IN [events |-> SelectSeq(r.events, OfType),
      replay |-> [r EXCEPT !.replayCount = @ + 1]]

GetReplayStatistics(r) ==
  [TotalStoredEvents |-> Len(r.events),
   TotalReplayOperations |-> r.replayCount]

ClearStoredEvents(r) == [r EXCEPT !.events = <<>>]

\* The tasks that call the managers concurrently; none in the sequential
\* specifications.
Tasks == {1, 2}
IdleTask == [pc |-> "idle"]
NoTasks == [t \in Tasks |-> IdleTask]

Sequential ==
  /\ replay = NewEventReplayManager
  /\ tasks = NoTasks

----------------------------------------------------------------------------
(* PaymentService operations *)

\* What the last operation did: its request, the gateway it ran on, the
\* gateway methods it invoked, what it returned, and what it handed to the
\* publisher.
NoRet ==
  [op |-> "none", gateway |-> "mock", req |-> NoRecord, rec |-> NoRecord,
   err |-> "nil", gw |-> [rec |-> NoRecord, err |-> "nil"], gwCalls |-> <<>>,
   handed |-> <<>>, pubErr |-> "nil", before |-> NewMockGateway, seen |-> 0]

Emails == {<<"test@example.com">>, <<>>}
Names == {<<"Test Customer">>}
ChargeIDs == {<<"ch_test123">>, <<>>}
Reasons == {<<"fraudulent">>}

CustomerRequests == [Email : Emails, Name : Names]
ChargeRequests ==
  {[Amount |-> 2000, Currency |-> usd, CustomerID |-> <<"cus_test123">>],
   [Amount |-> 1000001, Currency |-> usd, CustomerID |-> <<"cus_test123">>],
   [Amount |-> 2000, Currency |-> jpy, CustomerID |-> <<"cus_test123">>],
   [Amount |-> 0, Currency |-> <<"x", "x">>, CustomerID |-> <<>>]}
RefundRequests == [ChargeID : ChargeIDs, Amount : {1000}, Reason : Reasons]
DisputeRequests ==
  [ChargeID : {<<"ch_test123">>}, Amount : {2000}, Reason : Reasons]

createResult_failsOnPublishError(g, p) ==
  IF p.err # "nil" THEN [rec |-> NoRecord, err |-> p.err]
  ELSE [rec |-> g.rec, err |-> g.err]

\* What a create operation returns: the gateway's record and error, whatever
\* the publisher answered ("return customer, err").
createResult(g, p) == [rec |-> g.rec, err |-> g.err]

Finish(op, req, g, p, calls) ==
  /\ p.kafka.uuids <= MaxOps
  /\ Len(p.producer.events) <= MaxOps
  /\ mock' = g.mock
  /\ producer' = p.producer
  /\ kafka' = p.kafka
  /\ ret' = [op |-> op, gateway |-> gateway, req |-> req,
             rec |-> createResult(g, p).rec, err |-> createResult(g, p).err,
             gw |-> [rec |-> g.rec, err |-> g.err], gwCalls |-> calls,
             handed |-> p.handed, pubErr |-> p.err, before |-> mock,
             seen |-> Len(producer.events) + Len(kafka.log)]
  /\ UNCHANGED <<regVars, concVars, gateway, eventPublisher, dlq, now, whVars>>

CreateCustomer(req, up) ==
  /\ mock.counter < MaxOps
  /\ LET g == GatewayCreateCustomer(gateway, mock, req, now)
         p == IF g.err = "nil" /\ g.rec # NoRecord
              THEN publishEvent(eventPublisher, producer, kafka,
                                "customer.created", "/payments/customers",
                                CustomerData(g.rec), now, up)
              ELSE NoPublish(producer, kafka)
     IN Finish("CreateCustomer", req, g, p, <<"CreateCustomer">>)

CreateCharge(req, up) ==
  /\ mock.counter < MaxOps
  /\ LET g == GatewayCreateCharge(gateway, mock, req)
         p == IF g.err = "nil" /\ g.rec # NoRecord
              THEN publishEvent(eventPublisher, producer, kafka,
                                "charge.created", "/payments/charges",
                                ChargeData(g.rec), now, up)
              ELSE NoPublish(producer, kafka)
     IN Finish("CreateCharge", req, g, p, <<"CreateCharge">>)

CreateRefund(req, up) ==
  /\ mock.counter < MaxOps
  /\ LET g == GatewayCreateRefund(gateway, mock, req)
         p == IF g.err = "nil" /\ g.rec # NoRecord
              THEN publishEvent(eventPublisher, producer, kafka,
                                "refund.created", "/payments/refunds",
                                RefundData(g.rec), now, up)
              ELSE NoPublish(producer, kafka)
     IN Finish("CreateRefund", req, g, p, <<"CreateRefund">>)

CreateDispute(req, up) ==
  /\ mock.counter < MaxOps
  /\ LET g == GatewayCreateDispute(gateway, mock, req)
         p == IF g.err = "nil" /\ g.rec # NoRecord
              THEN publishEvent(eventPublisher, producer, kafka,
                                "dispute.created", "/payments/disputes",
                                DisputeData(g.rec), now, up)
              ELSE NoPublish(producer, kafka)
     IN Finish("CreateDispute", req, g, p, <<"CreateDispute">>)

\* MockProducer.SetError / ClearErrors / ClearEvents
SetError(eventType) ==
  /\ eventPublisher = "mock"
  /\ producer.errors = {}
  /\ producer' = [producer EXCEPT !.errors = @ \cup {eventType}]
  /\ UNCHANGED <<regVars, concVars, gateway, mock, eventPublisher, kafka, dlq, ret, now, whVars>>

ClearErrors ==
  /\ eventPublisher = "mock"
  /\ producer' = [producer EXCEPT !.errors = {}]
  /\ UNCHANGED <<regVars, concVars, gateway, mock, eventPublisher, kafka, dlq, ret, now, whVars>>

ClearEvents ==
  /\ eventPublisher = "mock"
  /\ producer' = [producer EXCEPT !.events = <<>>]
  /\ ret' = [NoRet EXCEPT !.op = "ClearEvents"]
  /\ UNCHANGED <<regVars, concVars, gateway, mock, eventPublisher, kafka, dlq, now, whVars>>

\* Envelopes that a caller of the dead-letter queue manager builds itself.
CallerEvents ==
  {[ID |-> <<"evt_test123">>, Type |-> "customer.created",
    Source |-> "/payments/customers",
    Data |-> [customer_id |-> <<"cus_test123">>,
              email |-> <<"test@example.com">>, name |-> <<"Test Customer">>],
    Time |-> 1, SpecVersion |-> "1.0"],
   NilEvent}

DlqSend(event, failureReason) ==
  /\ Len(dlq.events) + dlq.totalRetries < MaxDlq
  /\ LET r == SendToDeadLetterQueue(dlq, event, failureReason, now)
     IN /\ dlq' = r.dlq
        /\ ret' = [NoRet EXCEPT !.op = "SendToDeadLetterQueue", !.err = r.err]
  /\ UNCHANGED <<regVars, concVars, gateway, mock, eventPublisher, producer, kafka, now, whVars>>

DlqRetry(eventID) ==
  /\ Len(dlq.events) + dlq.totalRetries <= MaxDlq
  /\ LET r == RetryEvent(dlq, eventID)
     IN /\ dlq' = r.dlq
        /\ ret' = [NoRet EXCEPT !.op = "RetryEvent", !.err = r.err]
  /\ UNCHANGED <<regVars, concVars, gateway, mock, eventPublisher, producer, kafka, now, whVars>>

ClearDeadLetterQueue ==
  /\ dlq' = [dlq EXCEPT !.events = <<>>]
  /\ ret' = [NoRet EXCEPT !.op = "ClearDeadLetterQueue"]
  /\ UNCHANGED <<regVars, concVars, gateway, mock, eventPublisher, producer, kafka, now, whVars>>

----------------------------------------------------------------------------
(* Webhook ingestion: byte strings *)

\* The symbols that occur in headers and bodies.  The symbols of a body stand
\* for its lexemes: "{" and "}", an id member and a type member.
Alphabet ==
  <<"0", "1", "2", "3", "4", "5", "6", "7", "8", "9", "a", "b", "c", "d", "e",
    "f", "t", "v", "=", ",", ".", "+", "-", "{", "}", "x",
    "evt_1", "evt_2",
    "payment_intent.succeeded", "payment_intent.payment_failed",
    "charge.succeeded", "charge.failed", "charge.refunded",
    "charge.dispute.created", "charge.dispute.closed",
    "customer.created", "invoice.paid">>

\* The byte value of a symbol.
CodeOf == [c \in {Alphabet[i] : i \in 1..Len(Alphabet)} |->
             CHOOSE i \in 1..Len(Alphabet) : Alphabet[i] = c] @@ <<>>
Code(c) == CodeOf[c]

Digits == <<"0", "1", "2", "3", "4", "5", "6", "7", "8", "9">>
IsDigit(c) == \E i \in 1..10 : Digits[i] = c
DigitVal(c) == (CHOOSE i \in 1..10 : Digits[i] = c) - 1

\* strings.Split
RECURSIVE Split(_, _)
Split(s, sep) ==
  LET at == {i \in 1..Len(s) : s[i] = sep}
  IN IF at = {} THEN <<s>>
     ELSE LET i == CHOOSE j \in at : \A k \in at : j <= k
          IN <<SubSeq(s, 1, i - 1)>> \o Split(SubSeq(s, i + 1, Len(s)), sep)

\* strings.HasPrefix, strings.TrimPrefix
HasPrefix(s, prefix) ==
  Len(s) >= Len(prefix) /\ SubSeq(s, 1, Len(prefix)) = prefix
TrimPrefix(s, prefix) ==
  IF HasPrefix(s, prefix) THEN SubSeq(s, Len(prefix) + 1, Len(s)) ELSE s

\* strconv.ParseInt(s, 10, 64): an optional sign, then one or more digits.
RECURSIVE DecimalValue(_)
DecimalValue(s) ==
  IF s = <<>> THEN 0
  ELSE 10 * DecimalValue(SubSeq(s, 1, Len(s) - 1)) + DigitVal(s[Len(s)])

ParseInt(s) ==
  LET signed == s # <<>> /\ s[1] \in {"+", "-"}
      digits == IF signed THEN Tail(s) ELSE s
  IN IF digits = <<>> \/ \E i \in 1..Len(digits) : ~IsDigit(digits[i])
     THEN [ok |-> FALSE, val |-> 0]
     ELSE [ok |-> TRUE,
           val |-> IF signed /\ s[1] = "-" THEN 0 - DecimalValue(digits)
                   ELSE DecimalValue(digits)]

\* fmt.Sprintf("%d", n) for n >= 0
RECURSIVE FormatInt(_)
FormatInt(n) ==
  IF n < 10 THEN <<Digits[n + 1]>>
  ELSE FormatInt(n \div 10) \o <<Digits[(n % 10) + 1]>>

\* HMAC-SHA256 is modelled as a keyed function into digests of DigestLen
\* bytes that has no collisions on messages of at most DigestLen symbols.
DigestLen == 8

Secrets == <<"whsec_test", "whsec_test_secret">>
KeyCode(key) == CHOOSE i \in 1..Len(Secrets) : Secrets[i] = key

HmacSha256(key, message) ==
  [i \in 1..DigestLen |->
     ((IF i <= Len(message) THEN 7 * Code(message[i]) ELSE 0)
        + 13 * KeyCode(key) + i) % 256]

\* hex.EncodeToString
HexDigits ==
  <<"0", "1", "2", "3", "4", "5", "6", "7", "8", "9", "a", "b", "c", "d", "e",
    "f">>
EncodeToString(bytes) ==
  [i \in 1..(2 * Len(bytes)) |->
     IF i % 2 = 1 THEN HexDigits[(bytes[(i + 1) \div 2] \div 16) + 1]
     ELSE HexDigits[(bytes[i \div 2] % 16) + 1]]

Tolerance == 300

\* The "t=" and "v1=" fields of a Stripe-Signature header (the loop over
\* the parts; a later part of the same kind overwrites an earlier one).
headerFields(signature) ==
  LET parts == Split(signature, ",")
      tsParts == {i \in 1..Len(parts) : HasPrefix(parts[i], <<"t", "=">>)}
      sigParts == {i \in 1..Len(parts) :
                     /\ ~HasPrefix(parts[i], <<"t", "=">>)
                     /\ HasPrefix(parts[i], <<"v", "1", "=">>)}
      Last(S) == CHOOSE i \in S : \A j \in S : j <= i
  IN [n |-> Len(parts),
      timestamp |-> IF tsParts = {} THEN <<>>
                    ELSE TrimPrefix(parts[Last(tsParts)], <<"t", "=">>),
      sig |-> IF sigParts = {} THEN <<>>
              ELSE TrimPrefix(parts[Last(sigParts)], <<"v", "1", "=">>)]

signedMessage_payloadOnly(timestamp, payload) == payload

\* The message that is signed: "<t>.<body>"
signedMessage(timestamp, payload) == timestamp \o <<".">> \o payload

tooOld_reversed(t, ts) == ts - t > Tolerance

tooOld_atTolerance(t, ts) == t - ts >= Tolerance

\* The replay window: now - ts > 300
tooOld(t, ts) == t - ts > Tolerance

\* WebhookService.verifySignature: "nil" or the error.
verifySignature(secret, signature, payload, t) ==
  IF signature = <<>> THEN "missing Stripe-Signature header"
  ELSE
  LET h == headerFields(signature)
      ts == ParseInt(h.timestamp)
      expectedSigHex ==
        EncodeToString(HmacSha256(secret, signedMessage(h.timestamp, payload)))
  IN IF h.n # 2 THEN "invalid signature format"
     ELSE IF h.timestamp = <<>> \/ h.sig = <<>>
          THEN "missing timestamp or signature in header"
     ELSE IF ~ts.ok THEN "invalid timestamp"
     ELSE IF tooOld(t, ts.val) THEN "webhook timestamp too old"
     ELSE IF h.sig # expectedSigHex THEN "signature verification failed"
     ELSE "nil"

\* The sender's side: createWebhookSignature and the header it is put in.
createWebhookSignature(secret, timestamp, payload) ==
  EncodeToString(HmacSha256(secret, timestamp \o <<".">> \o payload))

SignatureHeader(timestamp, signature) ==
  <<"t", "=">> \o timestamp \o <<",", "v", "1", "=">> \o signature

----------------------------------------------------------------------------
(* Webhook ingestion: parsing, routing, handlers *)

EventIds == {"evt_1", "evt_2"}

RoutedTypes ==
  {"payment_intent.succeeded", "payment_intent.payment_failed",
   "charge.succeeded", "charge.failed", "charge.refunded",
   "charge.dispute.created", "charge.dispute.closed"}

\* Event types of the processor's catalog that the service has no handler for.
OtherTypes == {"customer.created", "invoice.paid"}

\* json.Unmarshal into WebhookEvent: an object with no members, or with an id
\* member and a type member; anything else is malformed.
Unmarshal(body) ==
  IF Len(body) = 2 /\ body[1] = "{" /\ body[2] = "}"
  THEN [ok |-> TRUE, event |-> [ID |-> "", Type |-> ""]]
  ELSE IF /\ Len(body) = 4 /\ body[1] = "{" /\ body[4] = "}"
          /\ body[2] \in EventIds /\ body[3] \in RoutedTypes \cup OtherTypes
       THEN [ok |-> TRUE, event |-> [ID |-> body[2], Type |-> body[3]]]
       ELSE [ok |-> FALSE, event |-> [ID |-> "", Type |-> ""]]

\* The handlers are placeholders: each marks its span "processed" and
\* returns nil.
handlePaymentIntentSucceeded(event) == "nil"
handlePaymentIntentFailed(event) == "nil"
handleChargeSucceeded(event) == "nil"
handleChargeFailed(event) == "nil"
handleChargeRefunded(event) == "nil"
handleDisputeCreated(event) == "nil"
handleDisputeClosed(event) == "nil"

\* WebhookService.handleEvent: [err, calls], calls being the handlers invoked.
Invoke(name, event, err) ==
  [err |-> err, calls |-> <<[handler |-> name, id |-> event.ID]>>]

handleEvent_rejectsUnknown(event) ==
  IF event.Type \in RoutedTypes
  THEN Invoke(event.Type, event, "nil")
  ELSE [err |-> "unknown event type", calls |-> <<>>]

handleEvent(event) ==
  CASE event.Type = "payment_intent.succeeded" ->
         Invoke("handlePaymentIntentSucceeded", event,
                handlePaymentIntentSucceeded(event))
    [] event.Type = "payment_intent.payment_failed" ->
         Invoke("handlePaymentIntentFailed", event,
                handlePaymentIntentFailed(event))
    [] event.Type = "charge.succeeded" ->
         Invoke("handleChargeSucceeded", event, handleChargeSucceeded(event))
    [] event.Type = "charge.failed" ->
         Invoke("handleChargeFailed", event, handleChargeFailed(event))
    [] event.Type = "charge.refunded" ->
         Invoke("handleChargeRefunded", event, handleChargeRefunded(event))
    [] event.Type = "charge.dispute.created" ->
         Invoke("handleDisputeCreated", event, handleDisputeCreated(event))
    [] event.Type = "charge.dispute.closed" ->
         Invoke("handleDisputeClosed", event, handleDisputeClosed(event))
    [] OTHER -> [err |-> "nil", calls |-> <<>>]

ProcessWebhook_handlesBeforeVerifying(secret, request, t) ==
  LET parsed == Unmarshal(request.Body)
      h == handleEvent(parsed.event)
      sigErr == verifySignature(secret, request.Signature, request.Body, t)
  IN IF ~parsed.ok
     THEN [err |-> "failed to parse webhook event",
           stages |-> <<"Rejected">>, calls |-> <<>>]
     ELSE IF sigErr # "nil"
          THEN [err |-> sigErr, stages |-> <<"Parsed", "Routed", "Rejected">>,
                calls |-> h.calls]
          ELSE [err |-> "nil",
                stages |-> <<"Parsed", "Routed", "Handled",
                             "SignatureVerified">>,
                calls |-> h.calls]

\* WebhookService.ProcessWebhook: [err, stages, calls], stages being the
\* stages of the delivery that were entered, in order.
ProcessWebhook(secret, request, t) ==
  LET sigErr == verifySignature(secret, request.Signature, request.Body, t)
  IN IF sigErr # "nil"
     THEN [err |-> sigErr, stages |-> <<"Rejected">>, calls |-> <<>>]
     ELSE
     LET parsed == Unmarshal(request.Body)
     IN IF ~parsed.ok
        THEN [err |-> "failed to parse webhook event",
              stages |-> <<"SignatureVerified", "Rejected">>, calls |-> <<>>]
        ELSE
        LET h == handleEvent(parsed.event)
        IN IF h.err # "nil"
           THEN [err |-> "failed to handle event",
                 stages |-> <<"SignatureVerified", "Parsed", "Routed",
                              "Rejected">>,
                 calls |-> h.calls]
           ELSE [err |-> "nil",
                 stages |-> <<"SignatureVerified", "Parsed", "Routed">>
                              \o (IF h.calls = <<>> THEN <<>>
                                  ELSE <<"Handled">>),
                 calls |-> h.calls]

\* WebhookService.ParseWebhookRequest
ParseWebhookRequest(signature, body) ==
  IF Len(body) = 0 THEN "webhook body cannot be empty"
  ELSE IF signature = <<>> THEN "missing Stripe-Signature header"
  ELSE "nil"

StatusOK == 200
StatusBadRequest == 400

handleStripeWebhook_alwaysOK(secret, signature, body, t) ==
  LET parseErr == ParseWebhookRequest(signature, body)
  IN IF parseErr # "nil"
     THEN [status |-> StatusBadRequest, err |-> parseErr,
           stages |-> <<"Received", "Rejected">>, calls |-> <<>>]
     ELSE LET r == ProcessWebhook(secret,
                                  [Signature |-> signature, Body |-> body], t)
          IN [status |-> StatusOK, err |-> r.err,
              stages |-> <<"Received">> \o r.stages, calls |-> r.calls]

\* App.handleStripeWebhook: [status, err, stages, calls]
handleStripeWebhook(secret, signature, body, t) ==
  LET parseErr == ParseWebhookRequest(signature, body)
  IN IF parseErr # "nil"
     THEN [status |-> StatusBadRequest, err |-> parseErr,
           stages |-> <<"Received", "Rejected">>, calls |-> <<>>]
     ELSE LET r == ProcessWebhook(secret,
                                  [Signature |-> signature, Body |-> body], t)
          IN [status |-> IF r.err # "nil" THEN StatusBadRequest ELSE StatusOK,
              err |-> r.err, stages |-> <<"Received">> \o r.stages,
              calls |-> r.calls]

----------------------------------------------------------------------------
(* Webhook deliveries *)

\* The clock of the webhook specifications starts here.
WhStart == 400

\* Times at which the sender signs, relative to WhStart: just past the
\* tolerance, exactly at it, now, and ahead of the receiver's clock by more
\* than the tolerance.
SignTimes ==
  {WhStart - Tolerance - 1, WhStart - Tolerance, WhStart,
   WhStart + Tolerance + 1}

Clock == WhStart..(WhStart + MaxNow)

Bodies ==
  {<<"{", "evt_1", ty, "}">> : ty \in RoutedTypes}
    \cup
  {<<"{", "evt_2", "charge.dispute.closed", "}">>,
   <<"{", "evt_1", "customer.created", "}">>,
   <<"{", "}">>,
   <<"{", "evt_1">>,
   <<>>}

\* How a delivery's header was made: signed by the sender with a key at a
\* time, or one of the broken shapes.
HeaderShapes == {"signed", "deadbeef", "onlyT", "onlyV1", "three", "empty"}

MakeHeader(shape, key, ts, body) ==
  LET T == FormatInt(ts)
      G == createWebhookSignature(key, T, body)
  IN CASE shape = "signed" -> SignatureHeader(T, G)
       [] shape = "deadbeef" ->
            SignatureHeader(T, <<"d", "e", "a", "d", "b", "e", "e", "f">>)
       [] shape = "onlyT" -> <<"t", "=">> \o T
       [] shape = "onlyV1" -> <<"v", "1", "=">> \o G
       [] shape = "three" -> SignatureHeader(T, G) \o <<",", "v", "1", "=">> \o G
       [] shape = "empty" -> <<>>

\* The deliveries tried: every body signed with the service's secret at every
\* signing time; and, with one routed body and with the empty body, a
\* signature made with another key and each broken header shape.
Deliveries ==
  [shape : {"signed"}, key : {Secrets[2]}, ts : SignTimes, body : Bodies]
    \cup [shape : {"signed"}, key : {Secrets[1]}, ts : {WhStart},
          body : {<<"{", "evt_1", "payment_intent.succeeded", "}">>, <<>>}]
    \cup [shape : HeaderShapes \ {"signed"}, key : {Secrets[2]},
          ts : {WhStart},
          body : {<<"{", "evt_1", "payment_intent.succeeded", "}">>, <<>>}]

\* The endpoint's answer to each delivery at each time, tabulated.
Response ==
  [d \in Deliveries, t \in Clock |->
     handleStripeWebhook(Secrets[2],
                         MakeHeader(d.shape, d.key, d.ts, d.body), d.body, t)]
    @@ <<>>

Idle == [pc |-> "idle"]

WhInit ==
  /\ webhookSecret = Secrets[2]
  /\ wh = Idle
  /\ handled = <<>>

PayInit ==
  /\ gateway \in Providers
  /\ mock = NewMockGateway
  /\ eventPublisher \in Publishers
  /\ producer = NewMockProducer
  /\ kafka = NewKafka
  /\ dlq = NewDeadLetterQueueManager
  /\ ret = NoRet

\* One delivery to the webhook endpoint.
Deliver(d) ==
  /\ Len(handled) < MaxDeliveries
  /\ LET r == Response[d, now]
     IN /\ wh' = [pc |-> "responded", shape |-> d.shape, key |-> d.key,
                  ts |-> d.ts, at |-> now, body |-> d.body,
                  status |-> r.status, err |-> r.err, stages |-> r.stages,
                  calls |-> r.calls, before |-> Len(handled)]
        /\ handled' = handled \o r.calls
  /\ UNCHANGED <<regVars, concVars, payVars, now, webhookSecret>>

Tick ==
  /\ now < WhStart + MaxNow
  /\ now' = now + 1
  /\ UNCHANGED <<regVars, concVars, payVars, whVars>>

\* Single-character changes of the timestamp, the body or the signature of a
\* signed delivery.
MutChars == {"0", "1", "9", "a", "f", ",", "=", "-", "x", "}"}

Mutations ==
  {[field |-> "none", pos |-> 1, char |-> "0"]}
    \cup [field : {"T", "B", "G"}, pos : 1..(2 * DigestLen), char : MutChars]

SigBodies ==
  {<<"{", "evt_1", "payment_intent.succeeded", "}">>, <<"{", "}">>,
   <<"{", "evt_1">>}

Mutate(s, field, m) ==
  IF m.field = field THEN [s EXCEPT ![m.pos] = m.char] ELSE s

Target(T, B, G, m) ==
  CASE m.field = "T" -> T [] m.field = "B" -> B [] OTHER -> G

\* A delivery signed with the service's secret and then changed in at most
\* one character, still to be verified.
Pending(ts, body, m) ==
  [pc |-> "pending", ts |-> ts, body |-> body, field |-> m.field,
   pos |-> m.pos, char |-> m.char]

\* verifySignature applied to the pending delivery.
VerifyMutated ==
  /\ wh.pc = "pending"
  /\ LET m == [field |-> wh.field, pos |-> wh.pos, char |-> wh.char]
         T == FormatInt(wh.ts)
         G == createWebhookSignature(webhookSecret, T, wh.body)
         T1 == Mutate(T, "T", m)
         B1 == Mutate(wh.body, "B", m)
         G1 == Mutate(G, "G", m)
     IN wh' = [pc |-> "verified", ts |-> wh.ts, body |-> wh.body,
               field |-> m.field, pos |-> m.pos, char |-> m.char,
               changed |-> m.field # "none"
                             /\ Target(T, wh.body, G, m)[m.pos] # m.char,
               at |-> now,
               err |-> verifySignature(webhookSecret,
                                       SignatureHeader(T1, G1), B1, now)]
  /\ UNCHANGED <<regVars, concVars, payVars, now, webhookSecret, handled>>

SigInit ==
  /\ Registries
  /\ Sequential
  /\ PayInit
  /\ eventPublisher = "nil"
  /\ gateway = "mock"
  /\ now \in Clock
  /\ webhookSecret \in {Secrets[1], Secrets[2]}
  /\ handled = <<>>
  /\ \E ts \in SignTimes, body \in SigBodies, m \in Mutations :
       /\ m.pos <= Len(Target(FormatInt(ts), body,
                              createWebhookSignature(webhookSecret,
                                                     FormatInt(ts), body), m))
       /\ wh = Pending(ts, body, m)

SigNext == VerifyMutated

SigSpec == SigInit /\ [][SigNext]_vars

WebhookInit ==
  /\ Registries
  /\ Sequential
  /\ PayInit
  /\ eventPublisher = "nil"
  /\ gateway = "mock"
  /\ now = WhStart
  /\ WhInit

WebhookNext ==
  \/ \E d \in Deliveries : Deliver(d)
  \/ Tick

WebhookSpec == WebhookInit /\ [][WebhookNext]_vars

\* Whether the Kafka broker accepts a message is an input of each publish.
Broker == IF eventPublisher = "kafka" THEN BOOLEAN ELSE {TRUE}

----------------------------------------------------------------------------
(* Specification of the payment service with its publishers and the DLQ *)

Init ==
  /\ Registries
  /\ PayInit
  /\ now = 1
  /\ WhInit
  /\ Sequential

Next ==
  \/ \E req \in CustomerRequests, up \in Broker : CreateCustomer(req, up)
  \/ \E req \in ChargeRequests, up \in Broker : CreateCharge(req, up)
  \/ \E req \in RefundRequests, up \in Broker : CreateRefund(req, up)
  \/ \E req \in DisputeRequests, up \in Broker : CreateDispute(req, up)
  \/ \E eventType \in EventTypes : SetError(eventType)
  \/ ClearErrors
  \/ ClearEvents
  \/ \E event \in CallerEvents, reason \in {"", "broker unavailable"} :
       DlqSend(event, reason)
  \/ \E id \in {<<>>, <<"evt_test123">>} : DlqRetry(id)
  \/ ClearDeadLetterQueue

Spec == Init /\ [][Next]_vars

----------------------------------------------------------------------------
(* Properties of the payment service *)

CreateOps == {"CreateCustomer", "CreateCharge", "CreateRefund", "CreateDispute"}

\* C1: a charge request whose currency the active gateway does not support, or
\* whose amount exceeds its MaxPaymentAmount, is rejected by CreateCharge with
\* an error, without any gateway method being invoked and without any
\* envelope handed to the publisher.
C1_RejectedBeforeDispatch ==
  (ret.op = "CreateCharge"
     /\ ValidatePaymentRequest(ret.gateway, ret.req) # "nil")
  => (ret.err # "nil" /\ ret.gwCalls = <<>> /\ ret.handed = <<>>)

InGatewayStore(rec) ==
  \/ rec \in mock.customers
  \/ rec \in mock.charges
  \/ rec \in mock.refunds
  \/ rec \in mock.disputes

\* C2: when the gateway call of a create operation succeeded and Publish
\* returned an error, the operation returns the gateway's record and no error,
\* and the record stays in the gateway.
C2_PublishFailureNotFatal ==
  (ret.op \in CreateOps /\ ret.gw.err = "nil" /\ ret.gw.rec # NoRecord
     /\ ret.pubErr # "nil")
  => /\ ret.err = "nil"
     /\ ret.rec = ret.gw.rec
     /\ ret.gateway = "mock" =>
          (InGatewayStore(ret.rec) /\ mock.counter = ret.before.counter + 1)

C2_Witness ==
  /\ ret.op = "CreateRefund"
  /\ ret.pubErr # "nil"
  /\ ret.err = "nil"
  /\ ret.rec \in mock.refunds

\* C3: after a create operation whose Publish attempt failed, the envelope is
\* held in the dead-letter queue.
C3_FailedPublishHeldInDlq ==
  (ret.op \in CreateOps /\ ret.handed # <<>> /\ ret.pubErr # "nil")
  => \E i \in 1..Len(GetDeadLetterEvents(dlq)) :
       LET e == GetDeadLetterEvents(dlq)[i].Event
       IN /\ e.Type = ret.handed[1].Type
          /\ e.Source = ret.handed[1].Source
          /\ e.Data = ret.handed[1].Data

ExpectedType(op) ==
  CASE op = "CreateCustomer" -> "customer.created"
    [] op = "CreateCharge" -> "charge.created"
    [] op = "CreateRefund" -> "refund.created"
    [] op = "CreateDispute" -> "dispute.created"

ExpectedSource(op) ==
  CASE op = "CreateCustomer" -> "/payments/customers"
    [] op = "CreateCharge" -> "/payments/charges"
    [] op = "CreateRefund" -> "/payments/refunds"
    [] op = "CreateDispute" -> "/payments/disputes"

DataCarries(op, d, rec, req) ==
  CASE op = "CreateCustomer" ->
         d.customer_id = rec.ID /\ d.email = rec.Email /\ d.name = rec.Name
    [] op = "CreateCharge" ->
         /\ d.charge_id = rec.ID /\ d.amount = rec.Amount
         /\ d.amount = req.Amount /\ d.currency = rec.Currency
         /\ d.status = rec.Status /\ d.customer_id = rec.CustomerID
    [] op \in {"CreateRefund", "CreateDispute"} ->
         /\ d.charge_id = rec.ChargeID /\ d.amount = rec.Amount
         /\ d.currency = rec.Currency /\ d.status = rec.Status
         /\ d.reason = rec.Reason
         /\ IF op = "CreateRefund" THEN d.refund_id = rec.ID
            ELSE d.dispute_id = rec.ID

\* The envelopes the configured publisher has accepted so far.
Accepted == IF eventPublisher = "mock" THEN producer.events ELSE kafka.log

\* C4: with a publisher configured and not failing, a successful create hands
\* exactly one envelope to the publisher, of type "<resource>.created", source
\* "/payments/<resource>s" and data carrying the created record's fields; a
\* create that failed hands none.
C4_OneEnvelopePerCreate ==
  (ret.op \in CreateOps /\ eventPublisher # "nil")
  => IF ret.err = "nil" /\ ret.rec # NoRecord
     THEN ret.pubErr = "nil" =>
            /\ Len(ret.handed) = 1
            /\ ret.handed[1].Type = ExpectedType(ret.op)
            /\ ret.handed[1].Source = ExpectedSource(ret.op)
            /\ DataCarries(ret.op, ret.handed[1].Data, ret.rec, ret.req)
            /\ Len(Accepted) = ret.seen + 1
            /\ Accepted[Len(Accepted)].Type = ret.handed[1].Type
            /\ Accepted[Len(Accepted)].Source = ret.handed[1].Source
            /\ Accepted[Len(Accepted)].Data = ret.handed[1].Data
     ELSE ret.handed = <<>> /\ Len(Accepted) = ret.seen

C4_Witness ==
  /\ ret.op = "CreateCharge"
  /\ eventPublisher = "mock"
  /\ ret.err = "nil"
  /\ Len(ret.handed) = 1
  /\ ret.handed[1].Data.amount = 2000
  /\ producer.events # <<>>

----------------------------------------------------------------------------
(* Webhook properties *)

\* C5: a header "t=T,v1=G" made with the service's secret for a timestamp
\* within tolerance and a body verifies; after a change of one character of
\* the body, of the timestamp or of the signature, verification fails.
C5_SignatureVerifiesUnlessMutated ==
  wh.pc = "verified"
  => /\ (~wh.changed /\ wh.at - wh.ts <= Tolerance) => wh.err = "nil"
     /\ wh.changed => wh.err # "nil"

C5_Witness ==
  /\ wh.pc = "verified"
  /\ wh.changed
  /\ wh.field = "T"
  /\ wh.at - wh.ts <= Tolerance
  /\ wh.err = "signature verification failed"

\* The delivery answered last was signed by the sender with the service's
\* secret.
CorrectlySigned ==
  wh.pc = "responded" /\ wh.shape = "signed" /\ wh.key = webhookSecret

Expired == wh.at - wh.ts > Tolerance

VerifyErrors ==
  {"missing Stripe-Signature header", "invalid signature format",
   "missing timestamp or signature in header", "invalid timestamp",
   "webhook timestamp too old", "signature verification failed"}

\* C28: a correctly signed delivery whose timestamp is exactly 300 seconds
\* before now, or lies after now, passes signature verification.
C28_OnlyOldTimestampsRejected ==
  (CorrectlySigned /\ (wh.at - wh.ts = Tolerance \/ wh.ts > wh.at))
  => /\ wh.err \notin VerifyErrors
     /\ wh.body # <<>>
          => \E i \in 1..Len(wh.stages) : wh.stages[i] = "SignatureVerified"

\* A delivery stamped more than the tolerance ahead of the clock is handled.
C28_Witness ==
  /\ CorrectlySigned
  /\ wh.ts - wh.at > Tolerance
  /\ wh.body = <<"{", "evt_1", "charge.succeeded", "}">>
  /\ wh.err = "nil"
  /\ wh.status = StatusOK
  /\ wh.calls # <<>>

StageOrder == <<"Received", "SignatureVerified", "Parsed", "Routed", "Handled">>

\* The stages entered are an initial part of StageOrder, closed by "Rejected"
\* when the delivery was rejected.
InStageOrder(stages) ==
  LET n == IF stages # <<>> /\ stages[Len(stages)] = "Rejected"
           THEN Len(stages) - 1 ELSE Len(stages)
  IN /\ n >= 1
     /\ n <= Len(StageOrder)
     /\ \A i \in 1..n : stages[i] = StageOrder[i]

\* The delivery answered last has one of the defects a delivery is rejected
\* for.
Defective ==
  \/ wh.body = <<>>
  \/ wh.shape # "signed"
  \/ wh.key # webhookSecret
  \/ Expired
  \/ ~Unmarshal(wh.body).ok

\* C7: the stages of a delivery occur in the order verification, parsing,
\* routing, handling; a handler is invoked only after the signature was
\* verified and the body parsed; a delivery with an empty body or header, a
\* malformed header, a wrong signature, an expired timestamp or malformed JSON
\* invokes no handler and changes nothing.
C7_StagesInOrder ==
  wh.pc = "responded"
  => /\ InStageOrder(wh.stages)
     /\ wh.calls # <<>> =>
          /\ Len(wh.stages) >= 5
          /\ wh.stages[2] = "SignatureVerified"
          /\ wh.stages[3] = "Parsed"
          /\ wh.stages[4] = "Routed"
     /\ Defective =>
          /\ wh.err # "nil"
          /\ wh.calls = <<>>
          /\ Len(handled) = wh.before
          /\ mock = NewMockGateway
          /\ producer = NewMockProducer
          /\ kafka = NewKafka
          /\ dlq = NewDeadLetterQueueManager

C7_Witness ==
  /\ wh.pc = "responded"
  /\ wh.shape = "signed"
  /\ wh.key # webhookSecret
  /\ wh.body = <<"{", "evt_1", "payment_intent.succeeded", "}">>
  /\ wh.err = "signature verification failed"
  /\ wh.stages = <<"Received", "Rejected">>
  /\ Len(handled) = 1
  /\ wh.before = 1

WellFormed == CorrectlySigned /\ ~Defective

\* C8: a correctly signed, in-tolerance, well-formed delivery whose type is
\* not one of the seven routed types is accepted with no error and status 200
\* and no handler is invoked; no well-formed delivery is rejected, whatever
\* its type.
C8_UnknownTypeAccepted ==
  WellFormed
  => /\ wh.err = "nil"
     /\ wh.status = StatusOK
     /\ Unmarshal(wh.body).event.Type \notin RoutedTypes =>
          (wh.calls = <<>> /\ Len(handled) = wh.before)

C8_Witness ==
  /\ WellFormed
  /\ wh.body = <<"{", "evt_1", "customer.created", "}">>
  /\ wh.status = StatusOK
  /\ wh.calls = <<>>

\* C9: the endpoint answers 200 exactly when verification, parsing, routing
\* and handling all succeeded, and 400 otherwise; an error of the handler
\* makes ProcessWebhook fail and the answer differ from 200.
C9_OkIffAllStagesSucceeded ==
  wh.pc = "responded"
  => /\ wh.status \in {StatusOK, StatusBadRequest}
     /\ wh.status = StatusOK <=> wh.err = "nil"
     /\ wh.status = StatusOK <=>
          /\ Len(wh.stages) >= 4
          /\ wh.stages[Len(wh.stages)] # "Rejected"
     /\ wh.status = StatusOK <=> ~Defective
     /\ wh.err = "failed to handle event" => wh.status # StatusOK

C9_Witness ==
  /\ wh.pc = "responded"
  /\ wh.status = StatusBadRequest
  /\ wh.err = "failed to parse webhook event"
  /\ wh.stages = <<"Received", "SignatureVerified", "Rejected">>

\* C10: a handler is applied at most once for a webhook event id, however
\* often the notification is delivered.
C10_HandledAtMostOnce ==
  \A i, j \in 1..Len(handled) : i # j => handled[i] # handled[j]

----------------------------------------------------------------------------
(* The dead-letter queue manager used by a caller that retries *)

MaxQueue == 2
MaxRetries == 2

\* Failed envelopes: two sharing an id, and one as publishEvent builds it,
\* without an id.
QueueEvents ==
  {[ID |-> <<"evt_retry123">>, Type |-> "charge.created",
    Source |-> "/payments/charges", Data |-> [charge_id |-> <<"ch_retry123">>],
    Time |-> 1, SpecVersion |-> "1.0"],
   [ID |-> <<"evt_retry123">>, Type |-> "refund.created",
    Source |-> "/payments/refunds", Data |-> [charge_id |-> <<"ch_retry123">>],
    Time |-> 1, SpecVersion |-> "1.0"],
   NewEvent("dispute.created", "/payments/disputes",
            [charge_id |-> <<"ch_retry123">>])}

QueueIds == {e.ID : e \in QueueEvents} \cup {<<"evt_unknown">>}

QueueEntry(e) ==
  [Event |-> e, FailureReason |-> "Kafka connection timeout",
   FailureTime |-> 0, RetryCount |-> 0]

\* The queues a manager can hold before the operations looked at.
QueueStates ==
  [events : UNION {[1..n -> {QueueEntry(e) : e \in QueueEvents}] :
                     n \in 0..MaxQueue},
   totalRetries : 0..1]

NotSent == [ok |-> FALSE]

QueueSend(event, failureReason) ==
  /\ Len(dlq.events) <= MaxQueue
  /\ LET r == SendToDeadLetterQueue(dlq, event, failureReason, now)
     IN /\ dlq' = r.dlq
        /\ ret' = [op |-> "SendToDeadLetterQueue", event |-> event,
                   err |-> r.err, before |-> dlq,
                   retried |-> /\ ret.op = "Republish"
                               /\ ret.err # "nil"
                               /\ ret.event = event]
  /\ UNCHANGED <<regVars, concVars, gateway, mock, eventPublisher, producer, kafka, now, whVars>>

QueueRetry(eventID) ==
  /\ dlq.totalRetries < MaxRetries
  /\ LET r == RetryEvent(dlq, eventID)
     IN /\ dlq' = r.dlq
        /\ ret' = [op |-> "RetryEvent", id |-> eventID, event |-> r.event,
                   err |-> r.err, before |-> dlq,
                   sent |-> IF ret.op = "SendToDeadLetterQueue"
                                 /\ ret.err = "nil"
                            THEN [ok |-> TRUE, event |-> ret.event,
                                  before |-> ret.before]
                            ELSE NotSent]
  /\ UNCHANGED <<regVars, concVars, gateway, mock, eventPublisher, producer, kafka, now, whVars>>

\* The caller of RetryEvent publishes the envelope it was handed.
Republish ==
  /\ ret.op = "RetryEvent"
  /\ ret.err = "nil"
  /\ Len(producer.events) < MaxRetries
  /\ LET r == MockPublish(producer, ret.event)
     IN /\ producer' = r.producer
        /\ ret' = [op |-> "Republish", event |-> ret.event, err |-> r.err,
                   before |-> dlq]
  /\ UNCHANGED <<regVars, concVars, gateway, mock, eventPublisher, kafka, dlq, now, whVars>>

DlqInit ==
  /\ Registries
  /\ Sequential
  /\ gateway = "mock"
  /\ mock = NewMockGateway
  /\ eventPublisher = "mock"
  /\ \E errors \in {{}, {"charge.created"}} :
       producer = [NewMockProducer EXCEPT !.errors = errors]
  /\ kafka = NewKafka
  /\ dlq \in QueueStates
  /\ ret = NoRet
  /\ now = 1
  /\ WhInit

DlqNext ==
  \/ \E event \in QueueEvents \cup {NilEvent},
        reason \in {"", "Temporary network error"} : QueueSend(event, reason)
  \/ \E id \in QueueIds : QueueRetry(id)
  \/ Republish

DlqSpec == DlqInit /\ [][DlqNext]_vars

Held(d, event) == \E i \in 1..Len(d.events) : d.events[i].Event = event

\* C11: an envelope that RetryEvent handed back and whose re-publish failed is
\* held in the dead-letter queue.
C11_HeldUntilRetrySucceeds ==
  (ret.op = "Republish" /\ ret.err # "nil") => Held(dlq, ret.event)

\* C24: an envelope that was retried and, its re-publish having failed, was
\* queued again carries the count of the retries made for it.
C24_RetryCountKept ==
  (ret.op = "SendToDeadLetterQueue" /\ ret.err = "nil" /\ ret.retried)
  => dlq.events[Len(dlq.events)].RetryCount >= 1

\* s without its i-th element is t.
Without(s, i, t) ==
  /\ Len(t) = Len(s) - 1
  /\ \A j \in 1..Len(t) : t[j] = IF j < i THEN s[j] ELSE s[j + 1]

\* C12: SendToDeadLetterQueue(e, reason) followed by RetryEvent(e.id) returns
\* an envelope with the id of e, removes exactly one entry and leaves the
\* others in their order, and raises the retry counter of the statistics by
\* one.
C12_SendThenRetry ==
  (ret.op = "RetryEvent" /\ ret.sent.ok /\ ret.id = ret.sent.event.ID)
  => /\ ret.err = "nil"
     /\ ret.event.ID = ret.sent.event.ID
     /\ Len(GetDeadLetterEvents(ret.before))
          = Len(GetDeadLetterEvents(ret.sent.before)) + 1
     /\ \E i \in 1..Len(ret.before.events) :
          Without(GetDeadLetterEvents(ret.before), i, GetDeadLetterEvents(dlq))
     /\ GetStatistics(dlq).RetryCount
          = GetStatistics(ret.before).RetryCount + 1
     /\ GetStatistics(dlq).TotalEvents
          = GetStatistics(ret.before).TotalEvents - 1

C12_Witness ==
  /\ ret.op = "RetryEvent"
  /\ ret.sent.ok
  /\ ret.id = ret.sent.event.ID
  /\ Len(ret.sent.before.events) = 2
  /\ ret.event # ret.sent.event
  /\ Len(dlq.events) = 2
  /\ dlq.totalRetries = 2

\* C29: RetryEvent(id) on a queue holding several entries with that id
\* returns and removes the earliest of them only, raising the retry counter by
\* one; the later entries with that id stay queued.
C29_EarliestOfSameIdRetried ==
  (/\ ret.op = "RetryEvent"
   /\ \E i \in 1..Len(ret.before.events) : ret.before.events[i].Event.ID = ret.id)
  => LET held == ret.before.events
         hits == {i \in 1..Len(held) : held[i].Event.ID = ret.id}
         first == CHOOSE i \in hits : \A j \in hits : i <= j
     IN /\ ret.err = "nil"
        /\ ret.event = held[first].Event
        /\ Without(held, first, dlq.events)
        /\ Cardinality({i \in 1..Len(dlq.events) :
                          dlq.events[i].Event.ID = ret.id})
             = Cardinality(hits) - 1
        /\ dlq.totalRetries = ret.before.totalRetries + 1

\* Two different envelopes without an id or with the same id were queued;
\* the first was handed back and the second is still queued.
C29_Witness ==
  /\ ret.op = "RetryEvent"
  /\ ret.err = "nil"
  /\ Len(ret.before.events) = 2
  /\ ret.before.events[1].Event.ID = ret.before.events[2].Event.ID
  /\ ret.before.events[1].Event # ret.before.events[2].Event
  /\ ret.event = ret.before.events[1].Event
  /\ dlq.events = <<ret.before.events[2]>>

----------------------------------------------------------------------------
(* The managers called from concurrent tasks *)

\* Neither manager holds a lock, so a call is a sequence of separate reads and
\* writes of the manager's fields, and the calls of two tasks interleave
\* between them.  Each task makes one call.

ConcEvents ==
  {[ID |-> <<"evt_retry123">>, Type |-> "charge.created",
    Source |-> "/payments/charges", Data |-> [charge_id |-> <<"ch_retry123">>],
    Time |-> 1, SpecVersion |-> "1.0"],
   [ID |-> <<"evt_failed123">>, Type |-> "customer.created",
    Source |-> "/payments/customers",
    Data |-> [customer_id |-> <<"cus_failed123">>],
    Time |-> 1, SpecVersion |-> "1.0"]}

TheEntry ==
  QueueEntry([ID |-> <<"evt_retry123">>, Type |-> "charge.created",
              Source |-> "/payments/charges",
              Data |-> [charge_id |-> <<"ch_retry123">>],
              Time |-> 1, SpecVersion |-> "1.0"])

Done(op, err, event) == [pc |-> "done", op |-> op, err |-> err, event |-> event]

\* SendToDeadLetterQueue up to the read of dlq.events by append.
CallSend(t, event, failureReason) ==
  /\ tasks[t].pc = "idle"
  /\ LET r == SendToDeadLetterQueue(dlq, event, failureReason, now)
     IN tasks' = [tasks EXCEPT ![t] =
                    IF r.err # "nil"
                    THEN Done("SendToDeadLetterQueue", r.err, NilEvent)
                    ELSE [pc |-> "send_append", event |-> event,
                          failureReason |-> failureReason,
                          events |-> dlq.events]]
  /\ UNCHANGED <<regVars, payVars, now, whVars, replay>>

\* The assignment of the appended slice to dlq.events.
SendAppend(t) ==
  /\ tasks[t].pc = "send_append"
  /\ LET r == SendToDeadLetterQueue([dlq EXCEPT !.events = tasks[t].events],
                                    tasks[t].event, tasks[t].failureReason,
                                    now)
     IN dlq' = [dlq EXCEPT !.events = r.dlq.events]
  /\ tasks' = [tasks EXCEPT ![t] =
                 Done("SendToDeadLetterQueue", "nil", NilEvent)]
  /\ UNCHANGED <<regVars, gateway, mock, eventPublisher, producer, kafka, ret, now,
                 whVars, replay>>

\* RetryEvent: the loop over dlq.events up to the match.
CallRetry(t, eventID) ==
  /\ tasks[t].pc = "idle"
  /\ LET r == RetryEvent(dlq, eventID)
         i == CHOOSE j \in 1..Len(dlq.events) :
                /\ dlq.events[j].Event.ID = eventID
                /\ \A h \in 1..(j - 1) : dlq.events[h].Event.ID # eventID
     IN tasks' = [tasks EXCEPT ![t] =
                    IF r.err # "nil" THEN Done("RetryEvent", r.err, NilEvent)
                    ELSE [pc |-> "retry_read", i |-> i, event |-> r.event]]
  /\ UNCHANGED <<regVars, payVars, now, whVars, replay>>

\* dlq.totalRetries++, its read
RetryReadCount(t) ==
  /\ tasks[t].pc = "retry_read"
  /\ tasks' = [tasks EXCEPT ![t] =
                 [pc |-> "retry_write", i |-> tasks[t].i,
                  event |-> tasks[t].event, n |-> dlq.totalRetries]]
  /\ UNCHANGED <<regVars, payVars, now, whVars, replay>>

\* dlq.totalRetries++, its write
RetryWriteCount(t) ==
  /\ tasks[t].pc = "retry_write"
  /\ dlq' = [dlq EXCEPT !.totalRetries = tasks[t].n + 1]
  /\ tasks' = [tasks EXCEPT ![t] =
                 [pc |-> "retry_remove", i |-> tasks[t].i,
                  event |-> tasks[t].event]]
  /\ UNCHANGED <<regVars, gateway, mock, eventPublisher, producer, kafka, ret, now,
                 whVars, replay>>

\* dlq.events = append(dlq.events[:i], dlq.events[i+1:]...): slicing past the
\* length of the current slice panics.
RetryRemove(t) ==
  /\ tasks[t].pc = "retry_remove"
  /\ IF tasks[t].i > Len(dlq.events)
     THEN /\ tasks' = [tasks EXCEPT ![t] =
                         [pc |-> "panicked", op |-> "RetryEvent",
                          err |-> "slice bounds out of range",
                          event |-> NilEvent]]
          /\ UNCHANGED dlq
     ELSE /\ dlq' = [dlq EXCEPT !.events = RemoveAt(@, tasks[t].i)]
          /\ tasks' = [tasks EXCEPT ![t] =
                         Done("RetryEvent", "nil", tasks[t].event)]
  /\ UNCHANGED <<regVars, gateway, mock, eventPublisher, producer, kafka, ret, now,
                 whVars, replay>>

\* StoreEvent up to the read of erm.events by append.
CallStore(t, event) ==
  /\ tasks[t].pc = "idle"
  /\ LET r == StoreEvent(replay, event)
     IN tasks' = [tasks EXCEPT ![t] =
                    IF r.err # "nil" THEN Done("StoreEvent", r.err, NilEvent)
                    ELSE [pc |-> "store_append", event |-> event,
                          events |-> replay.events]]
  /\ UNCHANGED <<regVars, payVars, now, whVars, replay>>

StoreAppend(t) ==
  /\ tasks[t].pc = "store_append"
  /\ replay' = [replay EXCEPT !.events =
                  StoreEvent([replay EXCEPT !.events = tasks[t].events],
                             tasks[t].event).replay.events]
  /\ tasks' = [tasks EXCEPT ![t] = Done("StoreEvent", "nil", NilEvent)]
  /\ UNCHANGED <<regVars, payVars, now, whVars>>

\* ReplayEvents and ReplayEventsByType: the loop over erm.events and the read
\* of erm.replayCount++.
CallReplay(t, byType) ==
  /\ tasks[t].pc = "idle"
  /\ tasks' = [tasks EXCEPT ![t] =
                 [pc |-> "replay_write",
                  op |-> IF byType THEN "ReplayEventsByType"
                         ELSE "ReplayEvents",
                  found |-> IF byType
                            THEN ReplayEventsByType(replay,
                                                    "charge.created").events
                            ELSE ReplayEvents(replay, 0, 2).events,
                  n |-> replay.replayCount]]
  /\ UNCHANGED <<regVars, payVars, now, whVars, replay>>

\* erm.replayCount++, its write
ReplayWriteCount(t) ==
  /\ tasks[t].pc = "replay_write"
  /\ replay' = [replay EXCEPT !.replayCount = tasks[t].n + 1]
  /\ tasks' = [tasks EXCEPT ![t] = Done(tasks[t].op, "nil", NilEvent)]
  /\ UNCHANGED <<regVars, payVars, now, whVars>>

ConcInit ==
  /\ Registries
  /\ gateway = "mock"
  /\ mock = NewMockGateway
  /\ eventPublisher = "nil"
  /\ producer = NewMockProducer
  /\ kafka = NewKafka
  /\ dlq = [NewDeadLetterQueueManager EXCEPT !.events = <<TheEntry>>]
  /\ ret = NoRet
  /\ now = 1
  /\ WhInit
  /\ replay = NewEventReplayManager
  /\ tasks = NoTasks

ConcNext ==
  \E t \in Tasks :
    \/ \E event \in ConcEvents \cup {NilEvent},
          reason \in {"", "Temporary network error"} :
         CallSend(t, event, reason)
    \/ SendAppend(t)
    \/ \E id \in {<<"evt_retry123">>, <<"evt_unknown">>} : CallRetry(t, id)
    \/ RetryReadCount(t)
    \/ RetryWriteCount(t)
    \/ RetryRemove(t)
    \/ \E event \in ConcEvents \cup {NilEvent} : CallStore(t, event)
    \/ StoreAppend(t)
    \/ \E byType \in BOOLEAN : CallReplay(t, byType)
    \/ ReplayWriteCount(t)

ConcSpec == ConcInit /\ [][ConcNext]_vars

Returned(op) ==
  {t \in Tasks : /\ tasks[t].pc = "done"
                 /\ tasks[t].op = op
                 /\ tasks[t].err = "nil"}

\* C13: when the concurrent calls have returned, no update is lost: every
\* accepted SendToDeadLetterQueue and StoreEvent left an entry, every replay
\* call raised the replay counter by one, and every entry handed out by
\* RetryEvent left the queue and raised the retry counter by one, so that two
\* retries of the one entry hand it to one caller only.
C13_NoUpdateLost ==
  (\A t \in Tasks : tasks[t].pc = "done")
  => /\ Len(dlq.events) = 1 + Cardinality(Returned("SendToDeadLetterQueue"))
                            - Cardinality(Returned("RetryEvent"))
     /\ dlq.totalRetries = Cardinality(Returned("RetryEvent"))
     /\ Len(replay.events) = Cardinality(Returned("StoreEvent"))
     /\ replay.replayCount = Cardinality(Returned("ReplayEvents"))
                               + Cardinality(Returned("ReplayEventsByType"))

----------------------------------------------------------------------------
(* SwitchProvider concurrent with a validated charge *)

\* PaymentService holds no lock either: a task validates a charge request
\* with ValidatePaymentRequest and then dispatches it with CreateCharge while
\* another task calls SwitchProvider.  Every read of s.gateway is a step.

ProviderTypes == Providers \cup {"unknown"}

\* GatewayFactory.CreateGateway(providerType): a gateway of the provider, or
\* an error for a provider the factory does not know.
FactoryCreateGateway(providerType) ==
  IF providerType \in Providers
  THEN [gateway |-> providerType, err |-> "nil"]
  ELSE [gateway |-> "nil", err |-> "unsupported payment provider"]

\* ValidatePaymentRequest: capabilities := s.gateway.GetCapabilities() and
\* the checks made on them.
CallValidate(t, req) ==
  /\ tasks[t].pc = "idle"
  /\ LET verdict == ValidatePaymentRequest(gateway, req)
     IN tasks' = [tasks EXCEPT ![t] =
                    [pc |-> IF verdict = "nil" THEN "validated"
                            ELSE "validate_name",
                     req |-> req, validatedOn |-> gateway,
                     err |-> verdict]]
  /\ UNCHANGED <<regVars, payVars, now, whVars, replay>>

\* ValidatePaymentRequest: s.gateway.GetProviderName() for the error returned.
ValidateName(t) ==
  /\ tasks[t].pc = "validate_name"
  /\ tasks' = [tasks EXCEPT ![t] =
                 [pc |-> "done", op |-> "ValidatePaymentRequest",
                  req |-> tasks[t].req, err |-> tasks[t].err,
                  validatedOn |-> tasks[t].validatedOn,
                  namedProvider |-> gateway]]
  /\ UNCHANGED <<regVars, payVars, now, whVars, replay>>

\* CreateCharge of the request that passed validation.
DispatchValidated(t) ==
  /\ tasks[t].pc = "validated"
  /\ LET g == GatewayCreateCharge(gateway, mock, tasks[t].req)
         p == IF g.err = "nil"
              THEN publishEvent(eventPublisher, producer, kafka,
                                "charge.created", "/payments/charges",
                                ChargeData(g.rec), now, TRUE)
              ELSE NoPublish(producer, kafka)
     IN /\ mock' = g.mock
        /\ producer' = p.producer
        /\ kafka' = p.kafka
        /\ tasks' = [tasks EXCEPT ![t] =
                       [pc |-> "done", op |-> "CreateCharge",
                        req |-> tasks[t].req,
                        err |-> createResult(g, p).err,
                        validatedOn |-> tasks[t].validatedOn,
                        dispatchedOn |-> gateway]]
  /\ UNCHANGED <<regVars, gateway, eventPublisher, dlq, ret, now, whVars, replay>>

\* SwitchProvider: s.factory.CreateGateway(providerType)
CallSwitch(t, providerType) ==
  /\ tasks[t].pc = "idle"
  /\ LET r == FactoryCreateGateway(providerType)
     IN tasks' = [tasks EXCEPT ![t] =
                    IF r.err # "nil"
                    THEN [pc |-> "done", op |-> "SwitchProvider",
                          err |-> r.err]
                    ELSE [pc |-> "switch_assign", created |-> r.gateway]]
  /\ UNCHANGED <<regVars, payVars, now, whVars, replay>>

\* SwitchProvider: s.gateway = gateway
SwitchAssign(t) ==
  /\ tasks[t].pc = "switch_assign"
  /\ gateway' = tasks[t].created
  /\ mock' = IF tasks[t].created = "mock" THEN NewMockGateway ELSE mock
  /\ tasks' = [tasks EXCEPT ![t] =
                 [pc |-> "done", op |-> "SwitchProvider", err |-> "nil"]]
  /\ UNCHANGED <<regVars, eventPublisher, producer, kafka, dlq, ret, now, whVars,
                 replay>>

SwitchInit ==
  /\ Registries
  /\ gateway \in Providers
  /\ mock = NewMockGateway
  /\ eventPublisher \in {"nil", "mock"}
  /\ producer = NewMockProducer
  /\ kafka = NewKafka
  /\ dlq = NewDeadLetterQueueManager
  /\ ret = NoRet
  /\ now = 1
  /\ WhInit
  /\ Sequential

SwitchNext ==
  \E t \in Tasks :
    \/ \E req \in ChargeRequests : CallValidate(t, req)
    \/ ValidateName(t)
    \/ DispatchValidated(t)
    \/ \E providerType \in ProviderTypes : CallSwitch(t, providerType)
    \/ SwitchAssign(t)

SwitchSpec == SwitchInit /\ [][SwitchNext]_vars

\* C14: an operation uses one gateway throughout: the gateway a request is
\* dispatched to, and the gateway named in a validation error, is the gateway
\* against whose capabilities the request was validated.
C14_OneGatewayPerOperation ==
  \A t \in Tasks :
    /\ (tasks[t].pc = "done" /\ tasks[t].op = "CreateCharge")
         => tasks[t].dispatchedOn = tasks[t].validatedOn
    /\ (tasks[t].pc = "done" /\ tasks[t].op = "ValidatePaymentRequest")
         => tasks[t].namedProvider = tasks[t].validatedOn

----------------------------------------------------------------------------
(* CloudEvents validation and schema versions *)

\* The specversions the validator supports.
SupportedSpecVersions == {"1.0", "1.1"}

\* C15: every envelope a publisher accepted has a non-empty id that no other
\* accepted envelope has, a non-zero time and a supported specversion.
C15_AcceptedEnvelopesComplete ==
  \A i \in 1..Len(Accepted) :
    /\ Accepted[i].ID # <<>>
    /\ Accepted[i].Time # 0
    /\ Accepted[i].SpecVersion \in SupportedSpecVersions
    /\ \A j \in 1..Len(Accepted) : j # i => Accepted[j].ID # Accepted[i].ID

----------------------------------------------------------------------------
(* The other state-changing operations of PaymentService *)

\* [rec, err, mock]
MockUpdateCustomer(m, customerID, req) ==
  LET hits == {c \in m.customers : c.ID = customerID}
  IN IF hits = {}
     THEN [rec |-> NoRecord, err |-> "customer not found", mock |-> m]
     ELSE LET old == CHOOSE c \in hits : TRUE
              new == [old EXCEPT !.Email = req.Email, !.Name = req.Name]
          IN [rec |-> new, err |-> "nil",
              mock |-> [m EXCEPT !.customers = (@ \ {old}) \cup {new}]]

MockDeleteCustomer(m, customerID) ==
  LET hits == {c \in m.customers : c.ID = customerID}
  IN IF hits = {}
     THEN [rec |-> NoRecord, err |-> "customer not found", mock |-> m]
     ELSE [rec |-> NoRecord, err |-> "nil",
           mock |-> [m EXCEPT !.customers = @ \ hits]]

MockUpdateDisputeStatus(m, disputeID, status) ==
  LET hits == {d \in m.disputes : d.ID = disputeID}
  IN IF hits = {}
     THEN [rec |-> NoRecord, err |-> "dispute not found", mock |-> m]
     ELSE LET old == CHOOSE d \in hits : TRUE
              new == [old EXCEPT !.Status = status]
          IN [rec |-> new, err |-> "nil",
              mock |-> [m EXCEPT !.disputes = (@ \ {old}) \cup {new}]]

SquareUpdateCustomer(m, customerID, req) ==
  IF customerID = <<>>
  THEN [rec |-> NoRecord, err |-> "customer ID is required", mock |-> m]
  ELSE IF ~ValidCustomerRequest(req)
  THEN [rec |-> NoRecord, err |-> "validation failed", mock |-> m]
  ELSE [rec |-> NoRecord, err |-> "not implemented", mock |-> m]

SquareDeleteCustomer(m, customerID) ==
  IF customerID = <<>>
  THEN [rec |-> NoRecord, err |-> "customer ID is required", mock |-> m]
  ELSE [rec |-> NoRecord, err |-> "not implemented", mock |-> m]

SquareUpdateDisputeStatus(m, disputeID, status) ==
  [rec |-> NoRecord, err |-> "not implemented", mock |-> m]

CustomerIDs == {<<"cus_mock_", 1>>, <<"cus_mock_", 2>>, <<>>}
DisputeIDs == {<<"dp_mock_", 1>>, <<"dp_mock_", 2>>}
DisputeStatuses == {"won", "lost"}
UpdateRequests ==
  [Email : {<<"new@example.com">>, <<>>}, Name : {<<"New Name">>}]

\* PaymentService.UpdateCustomer: the gateway's answer, nothing else.
UpdateCustomer(customerID, req) ==
  LET g == IF gateway = "mock"
           THEN MockUpdateCustomer(mock, customerID, req)
           ELSE SquareUpdateCustomer(mock, customerID, req)
  IN Finish("UpdateCustomer", req, g, NoPublish(producer, kafka),
            <<"UpdateCustomer">>)

DeleteCustomer(customerID) ==
  LET g == IF gateway = "mock" THEN MockDeleteCustomer(mock, customerID)
           ELSE SquareDeleteCustomer(mock, customerID)
  IN Finish("DeleteCustomer", NoRecord, g, NoPublish(producer, kafka),
            <<"DeleteCustomer">>)

UpdateDisputeStatus(disputeID, status) ==
  LET g == IF gateway = "mock"
           THEN MockUpdateDisputeStatus(mock, disputeID, status)
           ELSE SquareUpdateDisputeStatus(mock, disputeID, status)
  IN Finish("UpdateDisputeStatus", NoRecord, g, NoPublish(producer, kafka),
            <<"UpdateDisputeStatus">>)

UpdateInit ==
  /\ Registries
  /\ PayInit
  /\ eventPublisher # "nil"
  /\ now = 1
  /\ WhInit
  /\ Sequential

UpdateNext ==
  \/ \E req \in CustomerRequests, up \in Broker : CreateCustomer(req, up)
  \/ \E req \in DisputeRequests, up \in Broker : CreateDispute(req, up)
  \/ \E id \in CustomerIDs, req \in UpdateRequests : UpdateCustomer(id, req)
  \/ \E id \in CustomerIDs : DeleteCustomer(id)
  \/ \E id \in DisputeIDs, status \in DisputeStatuses :
       UpdateDisputeStatus(id, status)

UpdateSpec == UpdateInit /\ [][UpdateNext]_vars

\* C16: a successful UpdateCustomer, DeleteCustomer or UpdateDisputeStatus
\* hands an event to the configured publisher.
C16_EveryChangePublished ==
  (ret.op \in {"UpdateCustomer", "DeleteCustomer", "UpdateDisputeStatus"}
     /\ ret.err = "nil")
  => ret.handed # <<>>

----------------------------------------------------------------------------
(* Provider factory *)

NilConfig == [nil |-> TRUE]

\* Configurations: none, and ones whose api_key is absent, a secret key or
\* another key.
Configs ==
  {NilConfig} \cup [api_key : {<<>>, <<"sk_", "test_123">>, <<"pk_", "test_123">>}]

ProviderNames == {"stripe", "square", "paddle", "unknown"}

RegisterProvider(f, name) == [f EXCEPT !.providers = @ \cup {name}]

\* DefaultProviderFactory.CreateGateway: [gateway, err]
CreateGateway(f, provider, config) ==
  IF provider \notin f.providers
  THEN [gateway |-> "nil", err |-> "UnsupportedProviderError"]
  ELSE [gateway |-> "nil", err |-> "nil"]

\* DefaultProviderFactory.ValidateConfig
ValidateConfig(f, provider, config) ==
  IF config = NilConfig THEN "InvalidConfigError" ELSE "nil"

\* ValidateProviderConfig with validateStripeConfig, validatePaddleConfig and
\* validateSquareConfig; the configurations here carry no Paddle or Square
\* keys.
ValidateProviderConfig(provider, config) ==
  CASE provider = "stripe" ->
         IF config = NilConfig THEN "InvalidConfigError"
         ELSE IF config.api_key = <<>> THEN "InvalidConfigError"
         ELSE IF Head(config.api_key) # "sk_" THEN "InvalidConfigError"
         ELSE "nil"
    [] provider \in {"paddle", "square"} -> "InvalidConfigError"
    [] OTHER -> "UnsupportedProviderError"

\* InitializeFactory registers the Stripe constructor only.
InitializeFactory == RegisterProvider(NewDefaultProviderFactory, "stripe")

GetFactory(f) == IF f = NilFactory THEN InitializeFactory ELSE f

\* buildConfigFromEnv: never nil; env is the value of STRIPE_API_KEY.
buildConfigFromEnv(provider, env) == [api_key |-> env]

\* CreateGatewayFromEnv: [gateway, err]; an empty PAYMENT_PROVIDER means
\* stripe.
CreateGatewayFromEnv(f, envProvider, env) ==
  LET provider == IF envProvider = "" THEN "stripe" ELSE envProvider
      config == buildConfigFromEnv(provider, env)
  IN IF ValidateConfig(f, provider, config) # "nil"
     THEN [gateway |-> "nil", err |-> "InvalidConfigError"]
     ELSE CreateGateway(f, provider, config)

CallInitializeFactory ==
  /\ factory' = InitializeFactory
  /\ ret' = [op |-> "InitializeFactory", err |-> "nil"]
  /\ UNCHANGED <<gateway, mock, eventPublisher, producer, kafka, dlq, now,
                 whVars, concVars, schemas, heap>>

CallRegisterProvider(name) ==
  /\ factory # NilFactory
  /\ factory' = RegisterProvider(factory, name)
  /\ ret' = [op |-> "RegisterProvider", provider |-> name, err |-> "nil"]
  /\ UNCHANGED <<gateway, mock, eventPublisher, producer, kafka, dlq, now,
                 whVars, concVars, schemas, heap>>

CallCreateGateway(provider, config) ==
  /\ factory # NilFactory
  /\ LET r == CreateGateway(factory, provider, config)
     IN ret' = [op |-> "CreateGateway", provider |-> provider,
                config |-> config,
                registered |-> provider \in factory.providers,
                gateway |-> r.gateway, err |-> r.err]
  /\ UNCHANGED <<gateway, mock, eventPublisher, producer, kafka, dlq, now,
                 whVars, concVars, regVars>>

CallCreateGatewayFromEnv(envProvider, env) ==
  /\ LET f == GetFactory(factory)
         r == CreateGatewayFromEnv(f, envProvider, env)
     IN /\ factory' = f
        /\ ret' = [op |-> "CreateGatewayFromEnv",
                   provider |-> IF envProvider = "" THEN "stripe"
                                ELSE envProvider,
                   config |-> buildConfigFromEnv(envProvider, env),
                   registered |-> (IF envProvider = "" THEN "stripe"
                                   ELSE envProvider) \in f.providers,
                   gateway |-> r.gateway, err |-> r.err]
  /\ UNCHANGED <<gateway, mock, eventPublisher, producer, kafka, dlq, now,
                 whVars, concVars, schemas, heap>>

FactoryInit ==
  /\ gateway = "mock"
  /\ mock = NewMockGateway
  /\ eventPublisher = "nil"
  /\ producer = NewMockProducer
  /\ kafka = NewKafka
  /\ dlq = NewDeadLetterQueueManager
  /\ ret = NoRet
  /\ now = 1
  /\ WhInit
  /\ Sequential
  /\ factory \in {NilFactory, NewDefaultProviderFactory}
  /\ schemas = NewCloudEventsVersionManager
  /\ heap = NoHeap

FactoryNext ==
  \/ CallInitializeFactory
  \/ \E name \in ProviderNames \ {"unknown"} : CallRegisterProvider(name)
  \/ \E provider \in ProviderNames, config \in Configs :
       CallCreateGateway(provider, config)
  \/ \E envProvider \in ProviderNames \cup {""},
        env \in {<<>>, <<"sk_", "test_123">>, <<"pk_", "test_123">>} :
       CallCreateGatewayFromEnv(envProvider, env)

FactorySpec == FactoryInit /\ [][FactoryNext]_vars

\* C17: CreateGateway fails with UnsupportedProviderError for a name that was
\* never registered, with InvalidConfigError for a missing or malformed
\* configuration key, and otherwise returns a gateway; it never returns
\* neither a gateway nor an error.
C17_GatewayOrError ==
  ret.op = "CreateGateway"
  => /\ ~ret.registered => ret.err = "UnsupportedProviderError"
     /\ (ret.registered
           /\ ValidateProviderConfig(ret.provider, ret.config) # "nil")
          => ret.err = "InvalidConfigError"
     /\ (ret.registered
           /\ ValidateProviderConfig(ret.provider, ret.config) = "nil")
          => (ret.gateway # "nil" /\ ret.err = "nil")
     /\ ~(ret.gateway = "nil" /\ ret.err = "nil")

----------------------------------------------------------------------------
(* CloudEventsValidator on its own *)

\* Envelopes with every combination of present and absent required fields.
ValidateEvents ==
  [ID : {<<>>, <<"evt_1">>},
   Type : {"", "customer.created"},
   Source : {"", "/payments/customers"},
   Data : {<<>>, [customer_id |-> <<"cus_1">>]},
   Time : {0, 1},
   SpecVersion : {"", "0.3", "1.0", "1.1", "2.0"}]

ValidateEvent(event) ==
  /\ ret' = [op |-> "Validate", event |-> event, err |-> Validate(event)]
  /\ UNCHANGED <<gateway, mock, eventPublisher, producer, kafka, dlq, now,
                 whVars, concVars, regVars>>

ValidateInit ==
  /\ Registries
  /\ PayInit
  /\ gateway = "mock"
  /\ eventPublisher = "nil"
  /\ now = 1
  /\ WhInit
  /\ Sequential

ValidateNext == \E event \in ValidateEvents : ValidateEvent(event)

ValidateSpec == ValidateInit /\ [][ValidateNext]_vars

CheckOrder == <<"id", "type", "source", "specversion", "time">>

Violates(event, field) ==
  CASE field = "id" -> event.ID = <<>>
    [] field = "type" -> event.Type = ""
    [] field = "source" -> event.Source = ""
    [] field = "specversion" -> event.SpecVersion \notin SupportedSpecVersions
    [] field = "time" -> event.Time = 0

\* The errors that name a field.
ErrorsNaming(field) ==
  CASE field = "id" -> {"event id is required"}
    [] field = "type" -> {"event type is required"}
    [] field = "source" -> {"event source is required"}
    [] field = "specversion" ->
         {"event specversion is required"}
           \cup {"event specversion must be '1.0' or '1.1', got '" \o v \o "'" :
                   v \in {"0.3", "2.0"}}
    [] field = "time" -> {"event time should be set"}

\* C18: Validate reports the earliest violated check in the order id, type,
\* source, specversion (empty, then unsupported), time, with an error naming
\* that field, and reports no error exactly when no check is violated.
C18_FirstViolationReported ==
  ret.op = "Validate"
  => LET violated == {i \in 1..Len(CheckOrder) :
                        Violates(ret.event, CheckOrder[i])}
     IN IF violated = {}
        THEN ret.err = "nil"
        ELSE LET first == CHOOSE i \in violated : \A j \in violated : i <= j
             IN /\ ret.err \in ErrorsNaming(CheckOrder[first])
                /\ (CheckOrder[first] = "specversion"
                      => (ret.err = "event specversion is required"
                            <=> ret.event.SpecVersion = ""))

\* Several checks are violated at once and the earliest is the one reported.
C18_Witness ==
  /\ ret.op = "Validate"
  /\ ret.event.ID # <<>>
  /\ ret.event.Type # ""
  /\ ret.event.Source = ""
  /\ ret.event.SpecVersion = "2.0"
  /\ ret.event.Time = 0
  /\ ret.err = "event source is required"

----------------------------------------------------------------------------
(* CloudEventsVersionManager *)

\* What callers register: nothing, schemas lacking a version or a type,
\* schemas for customer.created, and two schemas whose type and version differ
\* but whose "type:version" keys are the same text.
RegisterInputs ==
  {NilSchema,
   [Version |-> "", Type |-> "customer.created",
    RequiredFields |-> <<"email">>],
   [Version |-> "2.0", Type |-> "", RequiredFields |-> <<"email">>],
   [Version |-> "1", Type |-> "customer.created:1",
    RequiredFields |-> <<"customer_id">>],
   [Version |-> "1:1", Type |-> "customer.created",
    RequiredFields |-> <<"email">>]}
  \cup [Version : {"1.1", "2.0"}, Type : {"customer.created"},
        RequiredFields : {<<"id", "customer_id">>, <<"email", "customer_id">>}]

SchemaVersions == {"1.0", "1.1", "2.0", "1:1", "1", "3.0"}

SchemaEvents ==
  [ID : {<<"evt_1">>},
   Type : {"customer.created", "customer.created:1"},
   Source : {"/payments/customers"},
   Data : {<<>>, [customer_id |-> <<"cus_1">>],
           [email |-> <<"test@example.com">>],
           [customer_id |-> <<"cus_1">>, email |-> <<"test@example.com">>]},
   Time : {1},
   SpecVersion : {"", "1.0", "2.0"}]

CallRegisterSchema(schema) ==
  /\ LET r == RegisterSchema(schemas, schema)
     IN /\ schemas' = r.schemas
        /\ ret' = [op |-> "RegisterSchema", schema |-> schema, err |-> r.err,
                   before |-> schemas]
  /\ UNCHANGED <<gateway, mock, eventPublisher, producer, kafka, dlq, now,
                 whVars, concVars, factory, heap>>

CallValidateAgainstVersion(event, version) ==
  /\ ret' = [op |-> "ValidateAgainstVersion", event |-> event,
             version |-> version,
             err |-> ValidateAgainstVersion(schemas, event, version)]
  /\ UNCHANGED <<gateway, mock, eventPublisher, producer, kafka, dlq, now,
                 whVars, concVars, regVars>>

CallMigrateToVersion(event, targetVersion) ==
  /\ LET r == MigrateToVersion(schemas, event, targetVersion)
     IN ret' = [op |-> "MigrateToVersion", event |-> event,
                version |-> targetVersion, migrated |-> r.event,
                err |-> r.err]
  /\ UNCHANGED <<gateway, mock, eventPublisher, producer, kafka, dlq, now,
                 whVars, concVars, regVars>>

SchemaInit == ValidateInit

SchemaNext ==
  \/ \E schema \in RegisterInputs : CallRegisterSchema(schema)
  \/ \E event \in SchemaEvents, version \in SchemaVersions :
       CallValidateAgainstVersion(event, version)
  \/ \E event \in SchemaEvents, targetVersion \in SchemaVersions :
       CallMigrateToVersion(event, targetVersion)

SchemaSpec == SchemaInit /\ [][SchemaNext]_vars

\* The schema registered for the type of the event and the version of the
\* last call, if there is one.
RegisteredFor(event, version) ==
  LET key == SchemaKey(event.Type, version)
  IN IF /\ key \in DOMAIN schemas
        /\ schemas[key].Type = event.Type
        /\ schemas[key].Version = version
     THEN schemas[key]
     ELSE NilSchema

\* The fields a schema requires of the data of an event.
RequiredOfData(schema) ==
  {schema.RequiredFields[i] : i \in 1..Len(schema.RequiredFields)}
    \ StructuralFields

\* C19: once a schema of type T is registered with a version V other than 1.0
\* and 1.1, an envelope of type T with specversion V and all required data
\* fields validates against V, and migrating a valid envelope of type T to V
\* succeeds.
C19_RegisteredVersionSupported ==
  (/\ ret.op \in {"ValidateAgainstVersion", "MigrateToVersion"}
   /\ ret.version \notin SupportedSpecVersions
   /\ RegisteredFor(ret.event, ret.version) # NilSchema
   /\ RequiredOfData(RegisteredFor(ret.event, ret.version))
        \subseteq DOMAIN ret.event.Data
   /\ \A field \in {"id", "type", "source", "time"} :
        ~Violates(ret.event, field)
   /\ ret.event.SpecVersion =
        (IF ret.op = "MigrateToVersion" THEN "1.0" ELSE ret.version))
  => ret.err = "nil"

\* C20: validating against the version of a registered schema s, a
\* structurally valid envelope of s.type whose data has every required field
\* other than the five structural ones succeeds, and one lacking such a field
\* fails with an error naming a field it lacks; a successful RegisterSchema
\* leaves its schema as the one stored for its type and version.
C20_RegisterThenValidate ==
  /\ (/\ ret.op = "ValidateAgainstVersion"
      /\ RegisteredFor(ret.event, ret.version) # NilSchema
      /\ \A i \in 1..Len(CheckOrder) : ~Violates(ret.event, CheckOrder[i]))
     => LET missing == RequiredOfData(RegisteredFor(ret.event, ret.version))
                         \ DOMAIN ret.event.Data
        IN IF missing = {}
           THEN ret.err = "nil"
           ELSE \E field \in missing :
                  ret.err = "required field '" \o field
                              \o "' not found in event data"
  /\ (ret.op = "RegisterSchema" /\ ret.err = "nil")
     => /\ RegisteredFor(ret.schema, ret.schema.Version) = ret.schema
        /\ \A key \in DOMAIN ret.before :
             key # SchemaKey(ret.schema.Type, ret.schema.Version)
               => (key \in DOMAIN schemas /\ schemas[key] = ret.before[key])

\* The default schema of customer.created 1.1 was replaced by one that does
\* not require email, and an envelope without email validates against 1.1.
C20_Witness ==
  /\ ret.op = "ValidateAgainstVersion"
  /\ ret.version = "1.1"
  /\ RegisteredFor(ret.event, ret.version) # NilSchema
  /\ RegisteredFor(ret.event, ret.version).RequiredFields
       = <<"id", "customer_id">>
  /\ DOMAIN ret.event.Data = {"customer_id"}
  /\ ret.err = "nil"

\* C21: MigrateToVersion returns either an envelope and no error, the envelope
\* having the target specversion and validating against the target version,
\* or no envelope and an error; never an envelope with an error, nor an
\* envelope that fails its target validation.
C21_MigrationFailsClosed ==
  ret.op = "MigrateToVersion"
  => IF ret.err = "nil"
     THEN /\ ret.migrated # NilEvent
          /\ ret.migrated.SpecVersion = ret.version
          /\ ValidateAgainstVersion(schemas, ret.migrated, ret.version) = "nil"
     ELSE ret.migrated = NilEvent

\* A migration to 1.1 whose copy lacks a required field: no envelope is
\* returned.
C21_Witness ==
  /\ ret.op = "MigrateToVersion"
  /\ ret.version = "1.1"
  /\ RegisteredFor(ret.event, ret.version) # NilSchema
  /\ ret.event.SpecVersion = "1.0"
  /\ DOMAIN ret.event.Data = {"email"}
  /\ ret.err # "nil"
  /\ ret.migrated = NilEvent

\* C22: migrating an envelope that is valid at 1.0 to 1.0 returns an envelope
\* with the same id, type, source, time, specversion and data, and migrating
\* the result again returns it unchanged.
C22_MigrateToOwnVersionIsIdentity ==
  (/\ ret.op = "MigrateToVersion"
   /\ ret.version = "1.0"
   /\ ret.event.SpecVersion = "1.0"
   /\ ValidateAgainstVersion(schemas, ret.event, "1.0") = "nil")
  => /\ ret.err = "nil"
     /\ ret.migrated = ret.event
     /\ DOMAIN ret.migrated.Data = DOMAIN ret.event.Data
     /\ \A k \in DOMAIN ret.event.Data :
          ret.migrated.Data[k] = ret.event.Data[k]
     /\ MigrateToVersion(schemas, ret.migrated, "1.0")
          = [event |-> ret.migrated, err |-> "nil"]

C22_Witness ==
  /\ ret.op = "MigrateToVersion"
  /\ ret.version = "1.0"
  /\ ret.event.SpecVersion = "1.0"
  /\ DOMAIN ret.event.Data = {"customer_id", "email"}
  /\ ret.err = "nil"
  /\ ret.migrated = ret.event

----------------------------------------------------------------------------
(* EventReplayManager, one caller *)

MaxStored == 2
MaxReplays == 2
MaxTime == 2

ReplayTypes == {"charge.created", "refund.created"}

StoredEvents ==
  [ID : {<<"evt_1">>}, Type : ReplayTypes, Source : {"/payments/charges"},
   Data : {<<>>}, Time : 1..MaxTime, SpecVersion : {"1.0"}]

\* The bounds of a replay range, from before the earliest event to after the
\* latest.
RangeTimes == 0..(MaxTime + 1)

\* ret.replays counts the calls of ReplayEvents and ReplayEventsByType made
\* so far.
DoStoreEvent(event) ==
  /\ Len(replay.events) < MaxStored
  /\ LET r == StoreEvent(replay, event)
     IN /\ replay' = r.replay
        /\ ret' = [op |-> "StoreEvent", event |-> event, err |-> r.err,
                   before |-> replay, replays |-> ret.replays]
  /\ UNCHANGED <<gateway, mock, eventPublisher, producer, kafka, dlq, now,
                 whVars, tasks, regVars>>

DoReplayEvents(startTime, endTime) ==
  /\ replay.replayCount < MaxReplays
  /\ LET r == ReplayEvents(replay, startTime, endTime)
     IN /\ replay' = r.replay
        /\ ret' = [op |-> "ReplayEvents", startTime |-> startTime,
                   endTime |-> endTime, events |-> r.events,
                   before |-> replay, replays |-> ret.replays + 1]
  /\ UNCHANGED <<gateway, mock, eventPublisher, producer, kafka, dlq, now,
                 whVars, tasks, regVars>>

DoReplayEventsByType(eventType) ==
  /\ replay.replayCount < MaxReplays
  /\ LET r == ReplayEventsByType(replay, eventType)
     IN /\ replay' = r.replay
        /\ ret' = [op |-> "ReplayEventsByType", eventType |-> eventType,
                   events |-> r.events, before |-> replay,
                   replays |-> ret.replays + 1]
  /\ UNCHANGED <<gateway, mock, eventPublisher, producer, kafka, dlq, now,
                 whVars, tasks, regVars>>

DoGetReplayStatistics ==
  /\ ret' = [op |-> "GetReplayStatistics",
             stats |-> GetReplayStatistics(replay), before |-> replay,
             replays |-> ret.replays]
  /\ UNCHANGED <<gateway, mock, eventPublisher, producer, kafka, dlq, now,
                 whVars, concVars, regVars>>

DoClearStoredEvents ==
  /\ replay' = ClearStoredEvents(replay)
  /\ ret' = [op |-> "ClearStoredEvents", err |-> "nil", before |-> replay,
             replays |-> ret.replays]
  /\ UNCHANGED <<gateway, mock, eventPublisher, producer, kafka, dlq, now,
                 whVars, tasks, regVars>>

ReplayInit ==
  /\ Registries
  /\ gateway = "mock"
  /\ mock = NewMockGateway
  /\ eventPublisher = "nil"
  /\ producer = NewMockProducer
  /\ kafka = NewKafka
  /\ dlq = NewDeadLetterQueueManager
  /\ ret = [op |-> "none", before |-> NewEventReplayManager, replays |-> 0]
  /\ now = 1
  /\ WhInit
  /\ Sequential

ReplayNext ==
  \/ \E event \in StoredEvents \cup {NilEvent} : DoStoreEvent(event)
  \/ \E startTime \in RangeTimes, endTime \in RangeTimes :
       DoReplayEvents(startTime, endTime)
  \/ \E eventType \in ReplayTypes \cup {"dispute.created"} :
       DoReplayEventsByType(eventType)
  \/ DoGetReplayStatistics
  \/ DoClearStoredEvents

ReplaySpec == ReplayInit /\ [][ReplayNext]_vars

\* got holds exactly the elements of log at the positions in idx, in the
\* order of log.
ExactlyAt(got, log, idx) ==
  /\ Len(got) = Cardinality(idx)
  /\ \A i \in idx : got[Cardinality({j \in idx : j <= i})] = log[i]

\* C23: ReplayEvents(start, end) returns exactly the stored envelopes with
\* start < time < end, in stored order; an envelope whose time is start or
\* end is left out, and the result is empty when start >= end.
C23_OpenInterval ==
  ret.op = "ReplayEvents"
  => LET log == ret.before.events
     IN /\ ExactlyAt(ret.events, log,
                     {i \in 1..Len(log) : /\ ret.startTime < log[i].Time
                                          /\ log[i].Time < ret.endTime})
        /\ \A k \in 1..Len(ret.events) :
             ret.events[k].Time \notin {ret.startTime, ret.endTime}
        /\ ret.startTime >= ret.endTime => ret.events = <<>>

\* One stored envelope lies on a bound and is left out while another lies
\* inside and is returned.
C23_Witness ==
  /\ ret.op = "ReplayEvents"
  /\ \E i \in 1..Len(ret.before.events) :
       ret.before.events[i].Time = ret.startTime
  /\ Len(ret.events) = 1
  /\ Len(ret.before.events) = 2

\* C27: every ReplayEvents and ReplayEventsByType call raises the counter by
\* one, matches or not, and leaves the log as it was; ReplayEventsByType
\* returns exactly the stored envelopes of the given type; StoreEvent,
\* GetReplayStatistics and ClearStoredEvents leave the counter alone, so
\* TotalReplayOperations is the number of replay calls made.
C27_CounterCountsReplayCalls ==
  /\ GetReplayStatistics(replay).TotalReplayOperations = ret.replays
  /\ ret.op \in {"ReplayEvents", "ReplayEventsByType"}
     => /\ replay.replayCount = ret.before.replayCount + 1
        /\ replay.events = ret.before.events
  /\ ret.op = "ReplayEventsByType"
     => LET log == ret.before.events
        IN ExactlyAt(ret.events, log,
                     {i \in 1..Len(log) : log[i].Type = ret.eventType})
  /\ ret.op \in {"StoreEvent", "GetReplayStatistics", "ClearStoredEvents"}
     => replay.replayCount = ret.before.replayCount
  /\ ret.op = "GetReplayStatistics"
     => ret.stats.TotalReplayOperations = ret.replays

\* A replay by type that matches nothing in a non-empty log is counted.
C27_Witness ==
  /\ ret.op = "ReplayEventsByType"
  /\ ret.before.events # <<>>
  /\ ret.events = <<>>
  /\ replay.replayCount = ret.before.replayCount + 1
  /\ ret.replays = MaxReplays

\* The errors ValidateAgainstVersion reports for a failed basic validation.
BasicValidationErrors ==
  {"basic validation failed: " \o e :
     e \in UNION {ErrorsNaming(CheckOrder[i]) : i \in 1..Len(CheckOrder)}}

\* C25: for an envelope that fails Validate, ValidateAgainstVersion returns
\* the basic-validation error whatever version is asked for, registered or
\* not.
C25_BasicValidationFirst ==
  (/\ ret.op = "ValidateAgainstVersion"
   /\ \E i \in 1..Len(CheckOrder) : Violates(ret.event, CheckOrder[i]))
  => ret.err \in BasicValidationErrors

\* C30: ValidateAgainstVersion accepts an envelope whose specversion is a
\* supported value other than the version asked for, whenever its data holds
\* the fields required by the schema registered for its type and that
\* version.
C30_OwnVersionNotCompared ==
  (/\ ret.op = "ValidateAgainstVersion"
   /\ ret.event.SpecVersion \in SupportedSpecVersions
   /\ ret.event.SpecVersion # ret.version
   /\ \A i \in 1..Len(CheckOrder) : ~Violates(ret.event, CheckOrder[i])
   /\ RegisteredFor(ret.event, ret.version) # NilSchema
   /\ RequiredOfData(RegisteredFor(ret.event, ret.version))
        \subseteq DOMAIN ret.event.Data)
  => ret.err = "nil"

\* An envelope at 1.0 with both data fields validates against the default
\* 1.1 schema.
C30_Witness ==
  /\ ret.op = "ValidateAgainstVersion"
  /\ ret.event.SpecVersion = "1.0"
  /\ ret.version = "1.1"
  /\ RegisteredFor(ret.event, ret.version) = customerV11
  /\ DOMAIN ret.event.Data = {"customer_id", "email"}
  /\ ret.err = "nil"

----------------------------------------------------------------------------
(* Migration of envelopes held by reference *)

MaxObjects == 2

DataKeys == {"customer_id", "email"}
DataValue == [k \in DataKeys |-> <<k, "value">>]

\* A caller migrates an envelope it holds.
CallMigrateObject(ref, targetVersion) ==
  /\ Len(heap.events) < MaxObjects
  /\ LET r == MigrateObject(heap, schemas, ref, targetVersion)
     IN /\ heap' = r.heap
        /\ ret' = [op |-> "MigrateToVersion", ref |-> ref,
                   version |-> targetVersion, out |-> r.event, err |-> r.err,
                   before |-> heap]
  /\ UNCHANGED <<gateway, mock, eventPublisher, producer, kafka, dlq, now,
                 whVars, concVars, factory, schemas>>

\* A caller adds a key to the data of an envelope it holds.
PutKey(ref, key) ==
  /\ key \notin DOMAIN heap.maps[heap.events[ref].Data]
  /\ heap' = [heap EXCEPT !.maps[heap.events[ref].Data] =
                (key :> DataValue[key]) @@ @]
  /\ ret' = [op |-> "PutKey", ref |-> ref, key |-> key, before |-> heap]
  /\ UNCHANGED <<gateway, mock, eventPublisher, producer, kafka, dlq, now,
                 whVars, concVars, factory, schemas>>

\* A caller removes a key from the data of an envelope it holds.
DeleteKey(ref, key) ==
  /\ key \in DOMAIN heap.maps[heap.events[ref].Data]
  /\ heap' = [heap EXCEPT !.maps[heap.events[ref].Data] =
                [k \in (DOMAIN @) \ {key} |-> @[k]]]
  /\ ret' = [op |-> "DeleteKey", ref |-> ref, key |-> key, before |-> heap]
  /\ UNCHANGED <<gateway, mock, eventPublisher, producer, kafka, dlq, now,
                 whVars, concVars, factory, schemas>>

\* One envelope, with or without an id, with any of the data keys.
ObjectInit ==
  /\ gateway = "mock"
  /\ mock = NewMockGateway
  /\ eventPublisher = "nil"
  /\ producer = NewMockProducer
  /\ kafka = NewKafka
  /\ dlq = NewDeadLetterQueueManager
  /\ ret = NoRet
  /\ now = 1
  /\ WhInit
  /\ Sequential
  /\ factory = NewDefaultProviderFactory
  /\ schemas = NewCloudEventsVersionManager
  /\ \E id \in {<<>>, <<"evt_1">>}, keys \in SUBSET DataKeys :
       heap = [events |-> <<[ID |-> id, Type |-> "customer.created",
                             Source |-> "/payments/customers", Data |-> 1,
                             Time |-> 1, SpecVersion |-> "1.0"]>>,
               maps |-> <<[k \in keys |-> DataValue[k]]>>]

ObjectNext ==
  \/ \E ref \in 1..Len(heap.events), targetVersion \in {"1.0", "1.1", "3.0"} :
       CallMigrateObject(ref, targetVersion)
  \/ \E ref \in 1..Len(heap.events), key \in DataKeys : PutKey(ref, key)
  \/ \E ref \in 1..Len(heap.events), key \in DataKeys : DeleteKey(ref, key)

ObjectSpec == ObjectInit /\ [][ObjectNext]_vars

\* C26: MigrateToVersion leaves every envelope and data map that existed
\* before the call as it was, whether it succeeds or fails; a returned
\* envelope is a new object with a new data map, so a key added to or
\* removed from the data of one envelope shows in no other.
C26_InputUntouched ==
  /\ ret.op = "MigrateToVersion"
     => /\ \A r \in 1..Len(ret.before.events) :
             heap.events[r] = ret.before.events[r]
        /\ \A m \in 1..Len(ret.before.maps) : heap.maps[m] = ret.before.maps[m]
        /\ IF ret.out = 0
           THEN ret.err # "nil" /\ heap = ret.before
           ELSE /\ ret.err = "nil"
                /\ ret.out \notin 1..Len(ret.before.events)
                /\ heap.events[ret.out].Data \notin 1..Len(ret.before.maps)
                /\ Deref(heap, ret.out)
                     = MigrateToVersion(schemas, Deref(ret.before, ret.ref),
                                        ret.version).event
  /\ ret.op \in {"PutKey", "DeleteKey"}
     => \A r \in 1..Len(heap.events) :
          r # ret.ref => Deref(heap, r) = Deref(ret.before, r)

\* A key was removed from the data of a migrated envelope and the envelope it
\* was migrated from still has it.
C26_Witness ==
  /\ ret.op = "DeleteKey"
  /\ ret.ref = 2
  /\ ret.key = "email"
  /\ "email" \in DOMAIN Deref(heap, 1).Data
  /\ "email" \notin DOMAIN Deref(heap, 2).Data

====
